---- MODULE Spec2Model ----
(***************************************************************************)
(* LyricsBeats backend: the two FastAPI applications of the repository     *)
(* (the monolith backend/server.py and the reorganised backend/api), the   *)
(* MongoDB collections they share, the uploads directory, and the audio /  *)
(* stem / lyrics functions the routes call.                                *)
(***************************************************************************)
EXTENDS Integers, Sequences, FiniteSets, TLC

\* ------------------------------------------------------------------ bounds
MaxClock == 1
MaxRuns == 1

\* ------------------------------------------------------------ value domains
Null == "<None>"

Apps == {"api", "server"}

\* uuid4 values of Project.id and UserStyle.id
ProjectIds == {"p1"}
StyleIds == {"s1"}

\* ProjectCreate.name
ProjectNames == {"my song"}

\* UploadFile.content_type values a client may send
ContentTypes == {"audio/mpeg", "audio/wav", "audio/mp3", "audio/x-wav",
                 "text/plain"}

\* UploadFile.filename, already split the way pathlib splits it
UploadNames == {[stem |-> "beat", suffix |-> ".mp3"]}

\* bytes of an uploaded file
Payloads == {"bytesA"}

\* LyricsRequest.style of the requests sent to the routes
Styles == {"trap"}

\* UserStyleCreate.name
StyleNames == {"mine"}

\* LyricsRequest.user_style_id: none, or the id of a (possibly deleted) style
UserStyleRefs == {Null} \cup StyleIds

\* LyricsRequest.custom_prompt
Prompts == {Null, "about success"}

\* text the external LLM may answer (possibly empty)
LlmTexts == {"", "verse one\n"}

\* the external chat call raises
LlmFails == "<raises>"

\* models.LyricsRequest (project_id of the body is not read by the routes)
LyricsRequests == [style : Styles, custom_prompt : Prompts, user_style_id : UserStyleRefs]

\* tasks: the requests in flight, each with the await its handler stands at
VARIABLES app, projects, user_styles, files, dirs, now, resp, runs, tasks

vars == <<app, projects, user_styles, files, dirs, now, resp, runs, tasks>>

\* ------------------------------------------------------------ dict helpers
\* dict.get(key): None for a missing key
Get(doc, key) == IF key \in DOMAIN doc THEN doc[key] ELSE Null

\* MongoDB $set: overwrite or add the fields of upd
MongoSet(doc, upd) ==
    [k \in (DOMAIN doc) \cup (DOMAIN upd) |->
        IF k \in DOMAIN upd THEN upd[k] ELSE doc[k]]

\* Python truth value of an Optional[str]
Truthy(v) == v \notin {Null, ""}

\* pathlib.Path(filename).suffix
Suffix(filename) == filename.suffix

\* Path.exists() below UPLOAD_DIR
Exists(name) == name \in (DOMAIN files) \cup (DOMAIN dirs)

\* writing (creating or truncating) one file of the uploads directory
WriteFile(fs, name, content) ==
    [n \in (DOMAIN fs) \cup {name} |-> IF n = name THEN content ELSE fs[n]]

\* the response of the last request, with the request it answers
Response(op, req, status, body, llm) ==
    [op |-> op, app |-> app, req |-> req, status |-> status, body |-> body,
     llm |-> llm]

HTTPException(status, detail) == [status |-> status, detail |-> detail]

\* ------------------------------------------------------------------ models
\* models.Project(name=...): the document backend/api inserts
api_Project(id, name, t) ==
    [id |-> id, name |-> name, original_file |-> Null,
     transformed_file |-> Null, lyrics |-> Null, style |-> Null,
     stems_directory |-> Null, midi_files |-> <<>>, musicxml_files |-> <<>>,
     main_midi |-> Null, transformation_type |-> Null,
     transformation_complete |-> FALSE, created_at |-> t, updated_at |-> t]

\* server.Project(name=...): the document server.py inserts
server_Project(id, name, t) ==
    [id |-> id, name |-> name, original_file |-> Null,
     transformed_file |-> Null, lyrics |-> Null, style |-> Null,
     created_at |-> t, updated_at |-> t]

\* ---------------------------------------------------------------- projects
\* POST /api/projects (backend/api)
api_create_project(id, name) ==
    /\ app = "api"
    /\ id \notin DOMAIN projects
    /\ projects' = [p \in (DOMAIN projects) \cup {id} |->
                      IF p = id THEN api_Project(id, name, now) ELSE projects[p]]
    /\ resp' = Response("create_project", [name |-> name], 200,
                        api_Project(id, name, now), <<>>)
    /\ UNCHANGED <<tasks, runs, app, user_styles, files, dirs, now>>

\* POST /api/projects (server.py)
server_create_project(id, name) ==
    /\ app = "server"
    /\ id \notin DOMAIN projects
    /\ projects' = [p \in (DOMAIN projects) \cup {id} |->
                      IF p = id THEN server_Project(id, name, now) ELSE projects[p]]
    /\ resp' = Response("create_project", [name |-> name], 200,
                        server_Project(id, name, now), <<>>)
    /\ UNCHANGED <<tasks, runs, app, user_styles, files, dirs, now>>

\* a lookup that answers 200 with an empty document for an unknown id
get_project_lenient(project_id) ==
    /\ resp' = IF project_id \notin DOMAIN projects
               THEN Response("get_project", [project_id |-> project_id], 200,
                             [id |-> project_id, name |-> Null], <<>>)
               ELSE Response("get_project", [project_id |-> project_id], 200,
                             projects[project_id], <<>>)
    /\ UNCHANGED <<tasks, runs, app, projects, user_styles, files, dirs, now>>

\* GET /api/projects/{project_id} (the same in both applications):
\* Project(**project) of the stored document
get_project(project_id) ==
    /\ resp' = IF project_id \notin DOMAIN projects
               THEN Response("get_project", [project_id |-> project_id], 404,
                             HTTPException(404, "Project not found"), <<>>)
               ELSE Response("get_project", [project_id |-> project_id], 200,
                             projects[project_id], <<>>)
    /\ UNCHANGED <<tasks, runs, app, projects, user_styles, files, dirs, now>>

\* ------------------------------------------------------------------ upload
allowed_types_any == ContentTypes

\* allowed_types of upload_file (the same list in both applications)
allowed_types == {"audio/mpeg", "audio/wav", "audio/mp3", "audio/x-wav"}

\* a stored name that ignores the project it belongs to
original_filename_unscoped(project_id, file_extension) ==
    "upload_original" \o file_extension

\* f"{project_id}_original{file_extension}"
original_filename(project_id, file_extension) ==
    project_id \o "_original" \o file_extension

\* an upload that also forgets the results of an earlier transformation
upload_file_resetting(project_id, content_type, filename, payload) ==
    LET req == [project_id |-> project_id, content_type |-> content_type]
        name == original_filename(project_id, Suffix(filename))
    IN
    IF project_id \notin DOMAIN projects
    THEN /\ resp' = Response("upload", req, 404,
                             HTTPException(404, "Project not found"), <<>>)
         /\ UNCHANGED <<tasks, runs, app, projects, user_styles, files, dirs, now>>
    ELSE IF content_type \notin allowed_types
    THEN /\ resp' = Response("upload", req, 400,
                HTTPException(400, "Invalid file type. Please upload audio files only."), <<>>)
         /\ UNCHANGED <<tasks, runs, app, projects, user_styles, files, dirs, now>>
    ELSE /\ files' = WriteFile(files, name, [kind |-> "upload", data |-> payload])
         /\ projects' = [projects EXCEPT ![project_id] =
                MongoSet(@, [original_file |-> name, updated_at |-> now,
                             transformation_complete |-> FALSE,
                             midi_files |-> <<>>])]
         /\ resp' = Response("upload", req, 200,
                [message |-> "File uploaded successfully", filename |-> name], <<>>)
         /\ UNCHANGED <<tasks, runs, app, user_styles, dirs, now>>

\* upload_file: identical in backend/api and server.py
upload_file(project_id, content_type, filename, payload) ==
    LET req == [project_id |-> project_id, content_type |-> content_type]
        name == original_filename(project_id, Suffix(filename))
    IN
    IF project_id \notin DOMAIN projects
    THEN /\ resp' = Response("upload", req, 404,
                             HTTPException(404, "Project not found"), <<>>)
         /\ UNCHANGED <<tasks, runs, app, projects, user_styles, files, dirs, now>>
    ELSE IF content_type \notin allowed_types
    THEN /\ resp' = Response("upload", req, 400,
                HTTPException(400, "Invalid file type. Please upload audio files only."), <<>>)
         /\ UNCHANGED <<tasks, runs, app, projects, user_styles, files, dirs, now>>
    ELSE /\ files' = WriteFile(files, name, [kind |-> "upload", data |-> payload])
         /\ projects' = [projects EXCEPT ![project_id] =
                MongoSet(@, [original_file |-> name, updated_at |-> now])]
         /\ resp' = Response("upload", req, 200,
                [message |-> "File uploaded successfully", filename |-> name], <<>>)
         /\ UNCHANGED <<tasks, runs, app, user_styles, dirs, now>>

api_upload_file(project_id, content_type, filename, payload) ==
    /\ app = "api"
    /\ upload_file(project_id, content_type, filename, payload)

server_upload_file(project_id, content_type, filename, payload) ==
    /\ app = "server"
    /\ upload_file(project_id, content_type, filename, payload)

\* ------------------------------------------------------ frequency-based stems
\* sample rates of the audio handed to create_frequency_based_stems
SampleRates == {22050, 44100}

\* the filters and the harmonic extraction that raise inside their try block,
\* by position of the stem they compute
FilterFailures == SUBSET (1..5)

\* a signal computed from the input audio: the filter applied to it with its
\* normalised band, and the factor it is scaled by, in percent
Derived(filter, low_freq, high_freq, percent) ==
    [from |-> "input", filter |-> filter, low_freq |-> low_freq,
     high_freq |-> high_freq, percent |-> percent]

\* the branch of apply_frequency_filter: nyquist = sr / 2
FilterType(sr, low_freq, high_freq) ==
    IF low_freq = 0 THEN "low"
    ELSE IF 2 * high_freq >= sr THEN "high"
    ELSE "band"

\* a filter whose failure is not caught
apply_frequency_filter_raising(sr, low_freq, high_freq, fails) ==
    IF fails THEN [raised |-> TRUE, audio |-> Null]
    ELSE [raised |-> FALSE,
          audio |-> Derived(FilterType(sr, low_freq, high_freq), low_freq, high_freq, 100)]

\* stem_separation.py: apply_frequency_filter; except: return audio
api_apply_frequency_filter(sr, low_freq, high_freq, fails) ==
    IF fails THEN [raised |-> FALSE, audio |-> Derived("none", low_freq, high_freq, 100)]
    ELSE [raised |-> FALSE,
          audio |-> Derived(FilterType(sr, low_freq, high_freq), low_freq, high_freq, 100)]

\* server.py: apply_frequency_filter; except: return audio * 0.1
server_apply_frequency_filter(sr, low_freq, high_freq, fails) ==
    IF fails THEN [raised |-> FALSE, audio |-> Derived("none", low_freq, high_freq, 10)]
    ELSE [raised |-> FALSE,
          audio |-> Derived(FilterType(sr, low_freq, high_freq), low_freq, high_freq, 100)]

\* stem_separation.py: extract_harmonic_component; except: return audio
api_extract_harmonic_component(fails) ==
    IF fails THEN [raised |-> FALSE, audio |-> Derived("none", 0, 0, 100)]
    ELSE [raised |-> FALSE, audio |-> Derived("harmonic", 0, 0, 100)]

\* server.py: extract_harmonic_component; except: return audio * 0.5
server_extract_harmonic_component(fails) ==
    IF fails THEN [raised |-> FALSE, audio |-> Derived("none", 0, 0, 50)]
    ELSE [raised |-> FALSE, audio |-> Derived("hpss", 0, 0, 100)]

\* stems = {}; stems["bass"] = ...; ...; return stems. A call that raises
\* ends the function: no dict is returned
StemsDict(bass, kick, mid, high, harmonic) ==
    LET calls == <<bass, kick, mid, high, harmonic>> IN
    IF \E i \in 1..5 : calls[i].raised
    THEN [raised |-> TRUE, stems |-> <<>>]
    ELSE [raised |-> FALSE,
          stems |-> <<[name |-> "bass", audio |-> bass.audio],
                      [name |-> "kick", audio |-> kick.audio],
                      [name |-> "melody", audio |-> mid.audio],
                      [name |-> "percussion", audio |-> high.audio],
                      [name |-> "harmony", audio |-> harmonic.audio]>>]

\* stem_separation.py: create_frequency_based_stems(audio, sr)
api_create_frequency_based_stems(sr, failing) ==
    StemsDict(api_apply_frequency_filter(sr, 0, 200, 1 \in failing),
              api_apply_frequency_filter(sr, 0, 80, 2 \in failing),
              api_apply_frequency_filter(sr, 200, 2000, 3 \in failing),
              api_apply_frequency_filter(sr, 2000, sr \div 2, 4 \in failing),
              api_extract_harmonic_component(5 \in failing))

\* server.py: create_frequency_based_stems(audio, sr)
server_create_frequency_based_stems(sr, failing) ==
    StemsDict(server_apply_frequency_filter(sr, 0, 200, 1 \in failing),
              server_apply_frequency_filter(sr, 0, 80, 2 \in failing),
              server_apply_frequency_filter(sr, 200, 2000, 3 \in failing),
              server_apply_frequency_filter(sr, 2000, sr \div 2, 4 \in failing),
              server_extract_harmonic_component(5 \in failing))

\* ------------------------------------------------------- stem / MIDI module
\* keys of the dict create_frequency_based_stems returns, in insertion order
Stems == <<"bass", "kick", "melody", "percussion", "harmony">>

\* what the libraries do to one stem inside the inner try block:
\*   midi_fail  predict() or stem_midi.write() raises
\*   xml_none   the MIDI is written, music21 raises inside convert_midi_to_musicxml
\*   ok         the MIDI and the notation file are written
StemOutcomes == {"midi_fail", "xml_none", "ok"}

\* where a run is aborted by an exception outside the inner try block:
\* a step before the loop, sf.write of the temporary stem audio of stem k
\* (the file is absent or partly written), or the writing of the info file
AbortPoints ==
    {[at |-> a, k |-> 0, partial |-> FALSE] :
        a \in {"none", "load", "predict", "write_main", "info"}}
    \cup {[at |-> "temp", k |-> k, partial |-> b] :
            k \in 1..Len(Stems), b \in BOOLEAN}

\* one run's environment: are the audio libraries importable, where it
\* aborts, what happens to each stem, does the full-mix notation convert
Plans ==
    [deps : BOOLEAN, abort : AbortPoints, stem : [1..Len(Stems) -> StemOutcomes],
     main_xml : BOOLEAN]

\* plans that differ in something the run can observe
Canonical(plan) ==
    /\ plan.abort.at \in {"load", "predict", "write_main"} =>
          /\ plan.main_xml
          /\ \A i \in 1..Len(Stems) : plan.stem[i] = "ok"
    /\ plan.abort.at = "temp" =>
          /\ plan.main_xml
          /\ \A i \in plan.abort.k..Len(Stems) : plan.stem[i] = "ok"
    /\ ~plan.deps =>
          /\ plan.abort.at = "none"
          /\ plan.main_xml
          /\ \A i \in 1..Len(Stems) : plan.stem[i] = "ok"

\* Python values whose type the code depends on
PyNone == [type |-> "NoneType", val |-> Null]
PyStr(s) == [type |-> "str", val |-> s]
PyTruthy(v) == v.type # "NoneType" /\ v.val # ""

\* v.name: a pathlib.Path has the attribute, a str does not (AttributeError)
HasNameAttribute(v) == v.type = "Path"

\* backend/audio_processing/stem_separation.py: convert_midi_to_musicxml.
\* Returns the file NAME (a str) or None; writes {name}.xml
api_convert_midi_to_musicxml(d, midi_name, name, converts) ==
    IF midi_name \notin d THEN [value |-> PyNone, dir |-> d]
    ELSE IF ~converts THEN [value |-> PyNone, dir |-> d]
    ELSE [value |-> PyStr(name \o ".xml"), dir |-> d \cup {name \o ".xml"}]

server_convert_midi_to_musicxml_unwritten(d, midi_name, name, converts) ==
    [value |-> PyStr(name \o ".musicxml"),
     dir |-> IF converts THEN d \cup {name \o ".musicxml"} ELSE d]

\* server.py: convert_midi_to_musicxml. Writes {name}.musicxml
server_convert_midi_to_musicxml(d, midi_name, name, converts) ==
    IF ~converts THEN [value |-> PyNone, dir |-> d]
    ELSE [value |-> PyStr(name \o ".musicxml"),
          dir |-> d \cup {name \o ".musicxml"}]

temp_name(stem_name) == "temp_" \o stem_name \o ".wav"

\* finally: if temp_stem_path.exists(): temp_stem_path.unlink()
unlink_temp(acc, stem_name) == [acc EXCEPT !.dir = @ \ {temp_name(stem_name)}]

\* stem_separation.py lines 80-81:
\*     if musicxml_path: musicxml_files.append(musicxml_path.name)
\* musicxml_path is a str, so .name raises AttributeError, which the inner
\* except swallows: nothing is appended
api_append_musicxml(acc, value) ==
    IF HasNameAttribute(value)
    THEN [acc EXCEPT !.musicxml_files = Append(@, value.name)]
    ELSE acc

\* server.py lines 279-280: if musicxml_path: musicxml_files.append(musicxml_path)
server_append_musicxml(acc, value) ==
    [acc EXCEPT !.musicxml_files = Append(@, value.val)]

\* an iteration in which a failing stem conversion ends the whole run
api_process_stem_abort(acc, i, plan) ==
    LET stem_name == Stems[i]
        midi_name == stem_name \o ".mid"
        withMidi == [acc EXCEPT !.dir = @ \cup {midi_name},
                                !.midi_files = Append(@, midi_name)]
        conv == api_convert_midi_to_musicxml(withMidi.dir, midi_name, stem_name,
                                             plan.stem[i] = "ok")
        withXml == [withMidi EXCEPT !.dir = conv.dir,
                       !.converted = IF PyTruthy(conv.value)
                                     THEN Append(@, conv.value.val) ELSE @]
    IN
    IF plan.abort.at = "temp" /\ plan.abort.k = i
    THEN [acc EXCEPT !.raised = TRUE,
                     !.dir = IF plan.abort.partial
                             THEN @ \cup {temp_name(stem_name)} ELSE @]
    ELSE IF plan.stem[i] = "midi_fail"
    THEN [unlink_temp(acc, stem_name) EXCEPT !.raised = TRUE]
    ELSE IF PyTruthy(conv.value)
    THEN unlink_temp(api_append_musicxml(withXml, conv.value), stem_name)
    ELSE unlink_temp(withXml, stem_name)

\* one iteration of the stem loop of stem_separation.py (lines 62-91)
api_process_stem(acc, i, plan) ==
    LET stem_name == Stems[i]
        midi_name == stem_name \o ".mid"
        withMidi == [acc EXCEPT !.dir = @ \cup {midi_name},
                                !.midi_files = Append(@, midi_name)]
        conv == api_convert_midi_to_musicxml(withMidi.dir, midi_name, stem_name,
                                             plan.stem[i] = "ok")
        withXml == [withMidi EXCEPT !.dir = conv.dir,
                       !.converted = IF PyTruthy(conv.value)
                                     THEN Append(@, conv.value.val) ELSE @]
    IN
    IF plan.abort.at = "temp" /\ plan.abort.k = i
    THEN \* sf.write raised before the try/finally was entered
         [acc EXCEPT !.raised = TRUE,
                     !.dir = IF plan.abort.partial
                             THEN @ \cup {temp_name(stem_name)} ELSE @]
    ELSE IF plan.stem[i] = "midi_fail"
    THEN unlink_temp(acc, stem_name)
    ELSE IF PyTruthy(conv.value)
    THEN unlink_temp(api_append_musicxml(withXml, conv.value), stem_name)
    ELSE unlink_temp(withXml, stem_name)

\* one iteration of the stem loop of server.py (lines 261-289)
server_process_stem(acc, i, plan) ==
    LET stem_name == Stems[i]
        midi_name == stem_name \o ".mid"
        withMidi == [acc EXCEPT !.dir = @ \cup {midi_name},
                                !.midi_files = Append(@, midi_name)]
        conv == server_convert_midi_to_musicxml(withMidi.dir, midi_name, stem_name,
                                                plan.stem[i] = "ok")
        withXml == [withMidi EXCEPT !.dir = conv.dir,
                       !.converted = IF PyTruthy(conv.value)
                                     THEN Append(@, conv.value.val) ELSE @]
    IN
    IF plan.abort.at = "temp" /\ plan.abort.k = i
    THEN [acc EXCEPT !.raised = TRUE,
                     !.dir = IF plan.abort.partial
                             THEN @ \cup {temp_name(stem_name)} ELSE @]
    ELSE IF plan.stem[i] = "midi_fail"
    THEN unlink_temp(acc, stem_name)
    ELSE IF PyTruthy(conv.value)
    THEN unlink_temp(server_append_musicxml(withXml, conv.value), stem_name)
    ELSE unlink_temp(withXml, stem_name)

\* for i, (stem_name, stem_audio) in enumerate(stems.items()): ...
\* the temporary file of an iteration that did not abort is removed in finally
RECURSIVE api_stem_loop(_, _, _)
api_stem_loop(acc, i, plan) ==
    IF i > Len(Stems) \/ acc.raised THEN acc
    ELSE api_stem_loop(api_process_stem(acc, i, plan), i + 1, plan)

RECURSIVE server_stem_loop(_, _, _)
server_stem_loop(acc, i, plan) ==
    IF i > Len(Stems) \/ acc.raised THEN acc
    ELSE server_stem_loop(server_process_stem(acc, i, plan), i + 1, plan)

\* converted: the names convert_midi_to_musicxml returned for the stems (it
\* logs each of them)
Failure(d, error) ==
    [result |-> [success |-> FALSE, error |-> error], dir |-> d, converted |-> <<>>]

\* stem_separation.py: extract_stems_and_convert_to_midi(audio_path, output_dir)
\* d is the content of output_dir before the call
api_extract_stems_and_convert_to_midi(d, plan) ==
    LET start == [dir |-> d \cup {"full_song.mid"}, midi_files |-> <<>>,
                  musicxml_files |-> <<>>, raised |-> FALSE, converted |-> <<>>]
        looped == api_stem_loop(start, 1, plan)
        info == IF plan.abort.at = "info" THEN looped.dir
                ELSE looped.dir \cup {"transformation_info.txt"}
    IN
    IF ~plan.deps THEN Failure(d, "Audio processing dependencies not installed")
    ELSE IF plan.abort.at = "load" THEN Failure(d, "load")
    ELSE IF plan.abort.at = "predict" THEN Failure(d, "predict")
    ELSE IF plan.abort.at = "write_main" THEN Failure(d, "write_main")
    ELSE IF looped.raised THEN Failure(looped.dir, "sf.write")
    ELSE [result |-> [success |-> TRUE, main_midi |-> "full_song.mid",
                      stem_midis |-> looped.midi_files,
                      musicxml_files |-> looped.musicxml_files,
                      stems_created |-> Stems],
          dir |-> info, converted |-> looped.converted]

\* server.py: extract_stems_and_convert_to_midi(audio_path, output_dir)
server_extract_stems_and_convert_to_midi(d, plan) ==
    LET start == [dir |-> d \cup {"full_song.mid"}, midi_files |-> <<>>,
                  musicxml_files |-> <<>>, raised |-> FALSE, converted |-> <<>>]
        looped == server_stem_loop(start, 1, plan)
        conv == server_convert_midi_to_musicxml(looped.dir, "full_song.mid",
                                                "full_arrangement", plan.main_xml)
        withMain == IF PyTruthy(conv.value)
                    THEN server_append_musicxml([looped EXCEPT !.dir = conv.dir],
                                                conv.value)
                    ELSE looped
    IN
    IF plan.abort.at = "load" THEN Failure(d, "load")
    ELSE IF plan.abort.at = "predict" THEN Failure(d, "predict")
    ELSE IF plan.abort.at = "write_main" THEN Failure(d, "write_main")
    ELSE IF looped.raised THEN Failure(looped.dir, "sf.write")
    ELSE IF plan.abort.at = "info"
    THEN [Failure(withMain.dir, "info") EXCEPT !.converted = looped.converted]
    ELSE [result |-> [success |-> TRUE, main_midi |-> "full_song.mid",
                      stem_midis |-> withMain.midi_files,
                      musicxml_files |-> withMain.musicxml_files],
          dir |-> withMain.dir \cup {"transformation_guide.txt"},
          converted |-> looped.converted]

\* ------------------------------------------------ audio transformation module
\* the steps of apply_audio_transformations in program order
Pipeline == <<"load", "pitch_shift", "time_stretch", "eq", "reverb",
              "compression", "distortion", "mono_to_stereo", "normalize", "write">>

\* the step at which a library call raises, if any
FailPoints == {Pipeline[i] : i \in 1..Len(Pipeline)} \cup {"none"}

\* a step whose exception is swallowed instead of ending the try block
run_stage_swallow(st, stage, fail) ==
    IF stage = "mono_to_stereo" /\ st.ndim # 1 THEN st
    ELSE IF fail = stage
    THEN [st EXCEPT !.ran = Append(@, stage)]
    ELSE [st EXCEPT !.ran = Append(@, stage),
                    !.ndim = IF stage = "load" THEN 1
                             ELSE IF stage = "mono_to_stereo" THEN 2 ELSE @,
                    !.written = IF stage = "write" THEN TRUE ELSE @]

\* one step: it is started (ran), raises if the environment says so, and has
\* its effect otherwise. librosa.load(path, sr=None) returns a mono (1-D)
\* signal; create_stereo_from_mono runs only on a 1-D signal and makes it 2-D
run_stage(st, stage, fail) ==
    IF stage = "mono_to_stereo" /\ st.ndim # 1 THEN st
    ELSE IF fail = stage
    THEN [st EXCEPT !.ran = Append(@, stage), !.raised = TRUE]
    ELSE [st EXCEPT !.ran = Append(@, stage),
                    !.ndim = IF stage = "load" THEN 1
                             ELSE IF stage = "mono_to_stereo" THEN 2 ELSE @,
                    !.written = IF stage = "write" THEN TRUE ELSE @]

\* the body of the try block: an exception leaves it at once
RECURSIVE run_pipeline(_, _, _)
run_pipeline(st, i, fail) ==
    IF i > Len(Pipeline) \/ st.raised THEN st
    ELSE run_pipeline(run_stage(st, Pipeline[i], fail), i + 1, fail)

NotStarted == [ran |-> <<>>, ndim |-> 0, raised |-> FALSE, written |-> FALSE]

\* backend/audio_processing: apply_audio_transformations(audio_path, output_path)
\* returned: the bool, with what the call did (steps started, file written,
\* exception escaping the function)
api_apply_audio_transformations(deps, fail) ==
    LET st == run_pipeline(NotStarted, 1, fail) IN
    IF ~deps
    THEN [returned |-> FALSE, ran |-> <<>>, written |-> FALSE, escaped |-> FALSE]
    ELSE [returned |-> ~st.raised, ran |-> st.ran, written |-> st.written,
          escaped |-> FALSE]

\* server.py: apply_audio_transformations(audio_path, output_path)
server_apply_audio_transformations(fail) ==
    LET st == run_pipeline(NotStarted, 1, fail) IN
    [returned |-> ~st.raised, ran |-> st.ran, written |-> st.written,
     escaped |-> FALSE]

\* ---------------------------------------------------------------- compression
\* samples are counted in thousandths of full scale; the values drawn are
\* multiples of 4, so that the division by the ratio is exact
Samples == {-1500, -1000, -900, -800, -704, -700, -400, 0, 400, 700, 704, 800,
            900, 1000, 1500}

\* audio arrays of one or two samples
Audios == {<<x>> : x \in Samples} \cup {<<x, y>> : x \in {-1000, 400, 900}, y \in Samples}

\* threshold = 0.7 (backend/audio_processing), 0.8 (server.py); ratio = 4.0
api_threshold == 700
server_threshold == 800
ratio == 4

\* np.abs, np.sign
Abs(x) == IF x < 0 THEN 0 - x ELSE x
Sign(x) == IF x < 0 THEN 0 - 1 ELSE IF x > 0 THEN 1 ELSE 0

\* backend/audio_processing: apply_compression
\*     mask = np.abs(audio) > threshold
\*     compressed[mask] = threshold + (audio[mask] - threshold) / ratio
api_apply_compression(audio) ==
    [i \in 1..Len(audio) |->
        IF Abs(audio[i]) > api_threshold
        THEN api_threshold + (audio[i] - api_threshold) \div ratio
        ELSE audio[i]]

\* server.py: apply_compression
\*     compressed[over] = np.sign(compressed[over]) *
\*                        (threshold + (np.abs(compressed[over]) - threshold) / ratio)
server_apply_compression(audio) ==
    [i \in 1..Len(audio) |->
        IF Abs(audio[i]) > server_threshold
        THEN Sign(audio[i]) *
             (server_threshold + (Abs(audio[i]) - server_threshold) \div ratio)
        ELSE audio[i]]

\* --------------------------------------------------------------- transform
\* the environments a transform request is explored with: every stem treated
\* alike, stems treated differently, the audio unreadable, libraries missing
UniformPlan(deps, at, outcome) ==
    [deps |-> deps, abort |-> [at |-> at, k |-> 0, partial |-> FALSE],
     stem |-> [i \in 1..Len(Stems) |-> outcome], main_xml |-> outcome = "ok"]

\* the plans that differ in something a run can observe
CanonicalPlans == {plan \in Plans : Canonical(plan)}

RoutePlans ==
    {UniformPlan(TRUE, "none", o) : o \in StemOutcomes}
    \cup {UniformPlan(TRUE, "load", "ok"), UniformPlan(FALSE, "none", "ok")}

stems_dirname(project_id) == project_id \o "_stems"

\* a $set that would also record a transformed audio file
api_transform_update_audio(project_id, result, t) ==
    [stems_directory |-> stems_dirname(project_id),
     midi_files |-> result.stem_midis,
     musicxml_files |-> result.musicxml_files,
     main_midi |-> result.main_midi,
     transformed_file |-> project_id \o "_transformed.mp3",
     transformation_type |-> "advanced_stems_midi",
     transformation_complete |-> TRUE,
     updated_at |-> t]

\* the $set of transform_beat in backend/api (lines 170-183)
api_transform_update(project_id, result, t) ==
    [stems_directory |-> stems_dirname(project_id),
     midi_files |-> result.stem_midis,
     musicxml_files |-> result.musicxml_files,
     main_midi |-> result.main_midi,
     transformation_type |-> "advanced_stems_midi",
     transformation_complete |-> TRUE,
     updated_at |-> t]

\* the body transform_beat of backend/api returns (lines 186-192)
api_transform_body(result) ==
    [message |-> "Beat successfully converted to MIDI stems and MusicXML files",
     main_midi |-> result.main_midi,
     stem_midis |-> result.stem_midis,
     musicxml_files |-> result.musicxml_files,
     stems_created |-> result.stems_created]

\* a transform route that converts without looking at original_file
api_transform_beat_unchecked(project_id, plan) ==
    LET req == [project_id |-> project_id, plan |-> plan]
        dname == stems_dirname(project_id)
        before == IF dname \in DOMAIN dirs THEN dirs[dname] ELSE {}
        run == api_extract_stems_and_convert_to_midi(before, plan)
    IN
    /\ app = "api"
    /\ IF project_id \notin DOMAIN projects
       THEN /\ resp' = Response("transform", req, 404,
                                HTTPException(404, "Project not found"), <<>>)
            /\ UNCHANGED <<projects, dirs>>
       ELSE /\ dirs' = [n \in (DOMAIN dirs) \cup {dname} |->
                          IF n = dname THEN run.dir ELSE dirs[n]]
            /\ IF ~run.result.success
               THEN /\ resp' = Response("transform", req, 500,
                            HTTPException(500, "Beat transformation failed"), <<>>)
                    /\ UNCHANGED projects
               ELSE /\ projects' = [projects EXCEPT ![project_id] =
                          MongoSet(@, api_transform_update(project_id, run.result, now))]
                    /\ resp' = Response("transform", req, 200,
                                        api_transform_body(run.result), <<>>)
    /\ UNCHANGED <<tasks, runs, app, user_styles, files, now>>

\* a transform route that records the transformation whatever the conversion
\* reports
api_transform_beat_unconditional(project_id, plan) ==
    LET req == [project_id |-> project_id, plan |-> plan]
        dname == stems_dirname(project_id)
        before == IF dname \in DOMAIN dirs THEN dirs[dname] ELSE {}
        run == api_extract_stems_and_convert_to_midi(before, plan)
    IN
    /\ app = "api"
    /\ IF project_id \notin DOMAIN projects
       THEN /\ resp' = Response("transform", req, 404,
                                HTTPException(404, "Project not found"), <<>>)
            /\ UNCHANGED <<projects, dirs>>
       ELSE IF ~Truthy(Get(projects[project_id], "original_file"))
       THEN /\ resp' = Response("transform", req, 400,
                HTTPException(400, "No original file found. Please upload a file first."), <<>>)
            /\ UNCHANGED <<projects, dirs>>
       ELSE IF ~Exists(projects[project_id].original_file)
       THEN /\ resp' = Response("transform", req, 404,
                                HTTPException(404, "Original file not found"), <<>>)
            /\ UNCHANGED <<projects, dirs>>
       ELSE /\ dirs' = [n \in (DOMAIN dirs) \cup {dname} |->
                          IF n = dname THEN run.dir ELSE dirs[n]]
            /\ projects' = [projects EXCEPT ![project_id] =
                  MongoSet(@, [stems_directory |-> dname,
                               transformation_complete |-> TRUE, updated_at |-> now])]
            /\ resp' = Response("transform", req,
                                IF run.result.success THEN 200 ELSE 500,
                                run.result, <<>>)
    /\ UNCHANGED <<tasks, runs, app, user_styles, files, now>>

\* POST /api/projects/{project_id}/transform (backend/api)
api_transform_beat(project_id, plan) ==
    LET req == [project_id |-> project_id, plan |-> plan]
        dname == stems_dirname(project_id)
        before == IF dname \in DOMAIN dirs THEN dirs[dname] ELSE {}
        run == api_extract_stems_and_convert_to_midi(before, plan)
    IN
    /\ app = "api"
    /\ IF project_id \notin DOMAIN projects
       THEN /\ resp' = Response("transform", req, 404,
                                HTTPException(404, "Project not found"), <<>>)
            /\ UNCHANGED <<projects, dirs>>
       ELSE IF ~Truthy(Get(projects[project_id], "original_file"))
       THEN /\ resp' = Response("transform", req, 400,
                HTTPException(400, "No original file found. Please upload a file first."), <<>>)
            /\ UNCHANGED <<projects, dirs>>
       ELSE IF ~Exists(projects[project_id].original_file)
       THEN /\ resp' = Response("transform", req, 404,
                                HTTPException(404, "Original file not found"), <<>>)
            /\ UNCHANGED <<projects, dirs>>
       ELSE \* transform_dir.mkdir(exist_ok=True), then the conversion
            /\ dirs' = [n \in (DOMAIN dirs) \cup {dname} |->
                          IF n = dname THEN run.dir ELSE dirs[n]]
            /\ IF ~run.result.success
               THEN \* the HTTPException(500) raised inside the try block is
                    \* caught by except Exception and raised again as a 500
                    /\ resp' = Response("transform", req, 500,
                            HTTPException(500, "Beat transformation failed"), <<>>)
                    /\ UNCHANGED projects
               ELSE /\ projects' = [projects EXCEPT ![project_id] =
                          MongoSet(@, api_transform_update(project_id, run.result, now))]
                    /\ resp' = Response("transform", req, 200,
                                        api_transform_body(run.result), <<>>)
    /\ UNCHANGED <<tasks, runs, app, user_styles, files, now>>

\* -------------------------------------------------------------- download stems
\* f"{project_id}_stems.zip"
stems_zipname(project_id) == project_id \o "_stems.zip"

\* GET /api/projects/{project_id}/download-stems (backend/api only): the zip
\* of the files of the stems directory is written into the uploads directory
api_download_stems(project_id) ==
    LET req == [project_id |-> project_id] IN
    /\ app = "api"
    /\ IF project_id \notin DOMAIN projects
       THEN /\ resp' = Response("download_stems", req, 404,
                                HTTPException(404, "Project not found"), <<>>)
            /\ UNCHANGED files
       ELSE IF ~Truthy(Get(projects[project_id], "stems_directory"))
       THEN /\ resp' = Response("download_stems", req, 400,
                  HTTPException(400, "No stems available for this project"), <<>>)
            /\ UNCHANGED files
       ELSE IF ~Exists(projects[project_id].stems_directory)
       THEN /\ resp' = Response("download_stems", req, 404,
                  HTTPException(404, "Stems directory not found"), <<>>)
            /\ UNCHANGED files
       ELSE LET zip == [kind |-> "zip",
                        entries |-> dirs[projects[project_id].stems_directory]]
            IN /\ files' = WriteFile(files, stems_zipname(project_id), zip)
               /\ resp' = Response("download_stems", req, 200,
                      [path |-> stems_zipname(project_id), content |-> zip,
                       filename |-> projects[project_id].name \o "_stems.zip"], <<>>)
    /\ UNCHANGED <<tasks, runs, app, projects, user_styles, dirs, now>>

\* Path(project['original_file']).suffix of a stored upload name
StoredSuffix(name) ==
    CHOOSE e \in {n.suffix : n \in UploadNames} :
        \E p \in ProjectIds : name = original_filename(p, e)

\* f"{project_id}_transformed{file_extension}"
transformed_filename(project_id, file_extension) ==
    project_id \o "_transformed" \o file_extension

\* POST /api/projects/{project_id}/transform (server.py)
server_transform_beat(project_id, fail) ==
    LET req == [project_id |-> project_id]
        call == server_apply_audio_transformations(fail)
        name == transformed_filename(project_id,
                    StoredSuffix(projects[project_id].original_file))
    IN
    /\ app = "server"
    /\ IF project_id \notin DOMAIN projects
       THEN /\ resp' = Response("transform", req, 404,
                                HTTPException(404, "Project not found"), <<>>)
            /\ UNCHANGED <<projects, files>>
       ELSE IF ~Truthy(Get(projects[project_id], "original_file"))
       THEN /\ resp' = Response("transform", req, 400,
                HTTPException(400, "No original file found. Please upload a file first."), <<>>)
            /\ UNCHANGED <<projects, files>>
       ELSE IF ~Exists(projects[project_id].original_file)
       THEN /\ resp' = Response("transform", req, 404,
                                HTTPException(404, "Original file not found"), <<>>)
            /\ UNCHANGED <<projects, files>>
       ELSE /\ files' = IF call.written
                        THEN WriteFile(files, name, [kind |-> "audio", data |-> "transformed"])
                        ELSE files
            /\ IF ~call.returned
               THEN /\ resp' = Response("transform", req, 500,
                            HTTPException(500, "Failed to transform beat"), <<>>)
                    /\ UNCHANGED projects
               ELSE /\ projects' = [projects EXCEPT ![project_id] =
                          MongoSet(@, [transformed_file |-> name, updated_at |-> now])]
                    /\ resp' = Response("transform", req, 200,
                          [message |-> "Beat transformed successfully into original composition",
                           filename |-> name], <<>>)
    /\ UNCHANGED <<tasks, runs, app, user_styles, dirs, now>>

\* ------------------------------------------------------------- user styles
\* models.UserStyle(**user_style.model_dump())
UserStyle(id, name, t) ==
    [id |-> id, name |-> name, description |-> "description of " \o name,
     sample_lyrics |-> "sample of " \o name, created_at |-> t]

\* POST /api/user-styles (the same in both applications)
create_user_style(id, name) ==
    /\ id \notin DOMAIN user_styles
    /\ user_styles' = [i \in (DOMAIN user_styles) \cup {id} |->
                         IF i = id THEN UserStyle(id, name, now) ELSE user_styles[i]]
    /\ resp' = Response("create_user_style", [name |-> name], 200,
                        UserStyle(id, name, now), <<>>)
    /\ UNCHANGED <<tasks, runs, app, projects, files, dirs, now>>

\* length argument of db.user_styles.find().to_list(length)
api_list_limit == 100
server_list_limit == 1000

list_limit == IF app = "api" THEN api_list_limit ELSE server_list_limit

\* cursor.to_list(length): at most length documents, in the collection's
\* natural order (no sort is given): when one document more than length is
\* stored, one of them is left out
ToListOmissions(coll, length) ==
    IF Cardinality(DOMAIN coll) <= length THEN {{}}
    ELSE {{i} : i \in DOMAIN coll}

\* GET /api/user-styles (both applications, with their own length)
get_user_styles(omitted) ==
    /\ Cardinality(DOMAIN user_styles) <= list_limit + 1
    /\ omitted \in ToListOmissions(user_styles, list_limit)
    /\ resp' = Response("get_user_styles", <<>>, 200,
                        {user_styles[i] : i \in (DOMAIN user_styles) \ omitted}, <<>>)
    /\ UNCHANGED <<tasks, runs, app, projects, user_styles, files, dirs, now>>

\* DELETE /api/user-styles/{style_id} (the same in both applications)
delete_user_style(style_id) ==
    /\ IF style_id \in DOMAIN user_styles
       THEN /\ user_styles' = [i \in (DOMAIN user_styles) \ {style_id} |-> user_styles[i]]
            /\ resp' = Response("delete_user_style", [style_id |-> style_id], 200,
                                [message |-> "User style deleted successfully"], <<>>)
       ELSE /\ resp' = Response("delete_user_style", [style_id |-> style_id], 404,
                                HTTPException(404, "User style not found"), <<>>)
            /\ UNCHANGED user_styles
    /\ UNCHANGED <<tasks, runs, app, projects, files, dirs, now>>

\* ------------------------------------------------------------ lyrics service
llm_call_retry(prompt, reply) ==
    IF reply = LlmFails
    THEN [sent |-> <<prompt, prompt>>, raised |-> TRUE, text |-> Null]
    ELSE [sent |-> <<prompt>>, raised |-> FALSE, text |-> reply]

\* one await llm.acreate([...]) / chat.send_message(...): the message is sent
\* once; the call returns the reply or raises
llm_call(prompt, reply) ==
    IF reply = LlmFails
    THEN [sent |-> <<prompt>>, raised |-> TRUE, text |-> Null]
    ELSE [sent |-> <<prompt>>, raised |-> FALSE, text |-> reply]

NotCalled == [sent |-> <<>>, raised |-> TRUE, text |-> Null]

\* "... if custom_prompt else ..."
PromptOrNone(custom_prompt) == IF Truthy(custom_prompt) THEN custom_prompt ELSE Null

\* services.generate_lyrics(request): the prompt names request.style
api_generate_lyrics(request, ai_available, reply) ==
    IF ~ai_available THEN NotCalled
    ELSE llm_call([kind |-> "style", style |-> request.style,
                   custom |-> PromptOrNone(request.custom_prompt)], reply)

\* services.generate_lyrics_with_user_style(user_style, custom_prompt);
\* get_llm_chat() raises when the chat library is missing
api_generate_lyrics_with_user_style(user_style, custom_prompt, ai_available, reply) ==
    IF ~ai_available THEN NotCalled
    ELSE llm_call([kind |-> "user_style", name |-> user_style.name,
                   description |-> user_style.description,
                   sample_lyrics |-> user_style.sample_lyrics,
                   custom |-> PromptOrNone(custom_prompt)], reply)

\* the try block of generate_project_lyrics up to the $set (lines 236-249):
\* a user style, when one is named, replaces the predefined style; a
\* user_style_id nothing is stored under raises before any call
api_lyrics_call(request, ai_available, reply) ==
    IF Truthy(request.user_style_id)
    THEN IF request.user_style_id \in DOMAIN user_styles
         THEN api_generate_lyrics_with_user_style(
                  user_styles[request.user_style_id],
                  request.custom_prompt, ai_available, reply)
         ELSE NotCalled
    ELSE api_generate_lyrics(request, ai_available, reply)

\* a route that stores the request's style even when a user style was used
api_generate_project_lyrics_request_style(project_id, request, ai_available, reply) ==
    LET req == [project_id |-> project_id, style |-> request.style,
                custom_prompt |-> request.custom_prompt,
                user_style_id |-> request.user_style_id, reply |-> reply]
        call == api_lyrics_call(request, ai_available, reply)
        styled == Truthy(request.user_style_id)
        style_name == IF styled THEN user_styles[request.user_style_id].name
                      ELSE request.style
    IN
    /\ app = "api"
    /\ IF project_id \notin DOMAIN projects
       THEN /\ resp' = Response("generate_lyrics", req, 404,
                                HTTPException(404, "Project not found"), <<>>)
            /\ UNCHANGED projects
       ELSE IF call.raised
       THEN /\ resp' = Response("generate_lyrics", req, 500,
                                HTTPException(500, "Failed to generate lyrics"), call.sent)
            /\ UNCHANGED projects
       ELSE /\ projects' = [projects EXCEPT ![project_id] =
                  MongoSet(@, [lyrics |-> call.text, style |-> request.style,
                               updated_at |-> now])]
            /\ resp' = Response("generate_lyrics", req, 200,
                                [lyrics |-> call.text, style |-> style_name], call.sent)
    /\ UNCHANGED <<tasks, runs, app, user_styles, files, dirs, now>>

\* POST /api/projects/{project_id}/generate-lyrics (backend/api)
api_generate_project_lyrics(project_id, request, ai_available, reply) ==
    LET req == [project_id |-> project_id, style |-> request.style,
                custom_prompt |-> request.custom_prompt,
                user_style_id |-> request.user_style_id, reply |-> reply]
        styled == Truthy(request.user_style_id)
        found == request.user_style_id \in DOMAIN user_styles
        call == api_lyrics_call(request, ai_available, reply)
        style_name == IF styled /\ found
                      THEN user_styles[request.user_style_id].name
                      ELSE request.style
    IN
    /\ app = "api"
    /\ IF project_id \notin DOMAIN projects
       THEN /\ resp' = Response("generate_lyrics", req, 404,
                                HTTPException(404, "Project not found"), <<>>)
            /\ UNCHANGED projects
       ELSE IF call.raised
       THEN \* every exception of the try block, the HTTPException(404) for an
            \* unknown user style included, is caught by except Exception
            /\ resp' = Response("generate_lyrics", req, 500,
                                HTTPException(500, "Failed to generate lyrics"), call.sent)
            /\ UNCHANGED projects
       ELSE /\ projects' = [projects EXCEPT ![project_id] =
                  MongoSet(@, [lyrics |-> call.text, style |-> style_name,
                               updated_at |-> now])]
            /\ resp' = Response("generate_lyrics", req, 200,
                                [lyrics |-> call.text, style |-> style_name], call.sent)
    /\ UNCHANGED <<tasks, runs, app, user_styles, files, dirs, now>>

\* style_prompts of server.py (lines 611-618), the texts abbreviated
style_prompts ==
    [trap |-> "Create trap-style rap lyrics ...",
     boom_bap |-> "Write old-school boom bap rap lyrics ...",
     drill |-> "Generate drill rap lyrics ...",
     conscious |-> "Create conscious rap lyrics ...",
     melodic |-> "Write melodic rap lyrics ...",
     freestyle |-> "Generate freestyle rap lyrics ..."]

\* a prompt table in which every style gets the default text
base_prompt_default(style) ==
    "Create original rap lyrics with creative wordplay and engaging flow."

\* style_prompts.get(request.style, default)
base_prompt(style) ==
    IF style \in DOMAIN style_prompts THEN style_prompts[style]
    ELSE "Create original rap lyrics with creative wordplay and engaging flow."

\* str.strip() of the replies the model draws
Strip(text) == IF text = "verse one\n" THEN "verse one" ELSE text

\* server.py lines 603-630: the prompt is the base prompt of the style, the
\* custom prompt and the context of a stored user style; an unknown
\* user_style_id adds nothing
server_lyrics_call(request, reply) ==
    LET style_context ==
            IF Truthy(request.user_style_id)
               /\ request.user_style_id \in DOMAIN user_styles
            THEN user_styles[request.user_style_id].name
            ELSE ""
    IN llm_call([kind |-> "server", base |-> base_prompt(request.style),
                 custom |-> PromptOrNone(request.custom_prompt),
                 context |-> style_context], reply)

\* POST /api/projects/{project_id}/generate-lyrics (server.py)
server_generate_lyrics(project_id, request, reply) ==
    LET req == [project_id |-> project_id, style |-> request.style,
                custom_prompt |-> request.custom_prompt,
                user_style_id |-> request.user_style_id, reply |-> reply]
        call == server_lyrics_call(request, reply)
        generated_lyrics == Strip(call.text)
    IN
    /\ app = "server"
    /\ IF project_id \notin DOMAIN projects
       THEN /\ resp' = Response("generate_lyrics", req, 404,
                                HTTPException(404, "Project not found"), <<>>)
            /\ UNCHANGED projects
       ELSE IF call.raised
       THEN /\ resp' = Response("generate_lyrics", req, 500,
                                HTTPException(500, "Failed to generate lyrics"), call.sent)
            /\ UNCHANGED projects
       ELSE /\ projects' = [projects EXCEPT ![project_id] =
                  MongoSet(@, [lyrics |-> generated_lyrics, style |-> request.style,
                               updated_at |-> now])]
            /\ resp' = Response("generate_lyrics", req, 200,
                                [lyrics |-> generated_lyrics, style |-> request.style],
                                call.sent)
    /\ UNCHANGED <<tasks, runs, app, user_styles, files, dirs, now>>

\* ------------------------------------------------------------- file serving
\* names a client asks for: an uploaded file, a stems directory, and a name
\* nothing is stored under
ServeNames ==
    {original_filename(p, fn.suffix) : p \in ProjectIds, fn \in UploadNames}
    \cup {stems_dirname(p) : p \in ProjectIds}
    \cup {"nonexistent.mp3"}

\* GET /api/files/{filename} (serve_file in backend/api, download_file in
\* server.py). file_path.exists() is also true of a directory; FileResponse
\* of a path that is not a regular file raises while the response is sent,
\* which the server answers with 500
serve_file(filename) ==
    /\ resp' = IF ~Exists(filename)
               THEN Response("serve_file", [filename |-> filename], 404,
                             HTTPException(404, "File not found"), <<>>)
               ELSE IF filename \in DOMAIN files
               THEN Response("serve_file", [filename |-> filename], 200,
                             files[filename], <<>>)
               ELSE Response("serve_file", [filename |-> filename], 500,
                             HTTPException(500, "Internal Server Error"), <<>>)
    /\ UNCHANGED <<tasks, runs, app, projects, user_styles, files, dirs, now>>

\* ------------------------------------------------------------------ export
\* a or b on two Optional[str]
Or(a, b) == IF Truthy(a) THEN a ELSE b

\* export_data of export_project in backend/api (lines 323-326)
api_export_data(project, t) == [project |-> project, exported_at |-> t]

\* export_data of export_project in server.py (lines 692-701)
server_export_data(project) ==
    [project_name |-> project.name,
     has_audio |-> Truthy(Get(project, "transformed_file"))
                   \/ Truthy(Get(project, "original_file")),
     has_lyrics |-> Truthy(Get(project, "lyrics")),
     audio_file |-> Or(Get(project, "transformed_file"), Get(project, "original_file")),
     lyrics |-> Get(project, "lyrics"),
     style |-> Get(project, "style"),
     created_at |-> Get(project, "created_at"),
     ready_for_export |-> Truthy(Get(project, "transformed_file"))
                          /\ Truthy(Get(project, "lyrics"))]

\* GET /api/projects/{project_id}/export (backend/api)
api_export_project(project_id) ==
    /\ app = "api"
    /\ resp' = IF project_id \notin DOMAIN projects
               THEN Response("export", [project_id |-> project_id], 404,
                             HTTPException(404, "Project not found"), <<>>)
               ELSE Response("export", [project_id |-> project_id], 200,
                             api_export_data(projects[project_id], now), <<>>)
    /\ UNCHANGED <<tasks, runs, app, projects, user_styles, files, dirs, now>>

\* GET /api/projects/{project_id}/export (server.py)
server_export_project(project_id) ==
    /\ app = "server"
    /\ resp' = IF project_id \notin DOMAIN projects
               THEN Response("export", [project_id |-> project_id], 404,
                             HTTPException(404, "Project not found"), <<>>)
               ELSE Response("export", [project_id |-> project_id], 200,
                             server_export_data(projects[project_id]), <<>>)
    /\ UNCHANGED <<tasks, runs, app, projects, user_styles, files, dirs, now>>

\* ---------------------------------------------------------- download lyrics
\* f"{project_id}_lyrics.txt"
api_lyrics_filename(project) == project.id \o "_lyrics.txt"

\* project['name'].replace(' ', '_') on the names the model draws
ReplaceSpaces(name) == IF name = "my song" THEN "my_song" ELSE name

\* f"{project['name'].replace(' ', '_')}_lyrics.txt"
server_lyrics_filename(project) == ReplaceSpaces(project.name) \o "_lyrics.txt"

\* the text backend/api writes to the lyrics file
api_lyrics_content(project) ==
    [kind |-> "lyrics", title |-> project.name, style |-> Get(project, "style"),
     lyrics |-> project.lyrics]

\* lyrics_content of server.py
server_lyrics_content(project) ==
    [kind |-> "lyrics", title |-> project.name, style |-> Get(project, "style"),
     generated |-> Get(project, "updated_at"), lyrics |-> project.lyrics]

\* status of download_lyrics for a project without lyrics
api_no_lyrics_status == 400
server_no_lyrics_status == 404

\* GET /api/projects/{project_id}/download-lyrics (backend/api)
api_download_lyrics(project_id) ==
    LET req == [project_id |-> project_id] IN
    /\ app = "api"
    /\ IF project_id \notin DOMAIN projects
       THEN /\ resp' = Response("download_lyrics", req, 404,
                                HTTPException(404, "Project not found"), <<>>)
            /\ UNCHANGED files
       ELSE IF ~Truthy(Get(projects[project_id], "lyrics"))
       THEN /\ resp' = Response("download_lyrics", req, api_no_lyrics_status,
                  HTTPException(api_no_lyrics_status, "No lyrics available for this project"),
                  <<>>)
            /\ UNCHANGED files
       ELSE LET project == projects[project_id]
                path == api_lyrics_filename(project)
            IN /\ files' = WriteFile(files, path, api_lyrics_content(project))
               /\ resp' = Response("download_lyrics", req, 200,
                      [path |-> path, content |-> files'[path],
                       filename |-> project.name \o "_lyrics.txt"], <<>>)
    /\ UNCHANGED <<tasks, runs, app, projects, user_styles, dirs, now>>

\* GET /api/projects/{project_id}/download-lyrics (server.py)
server_download_lyrics(project_id) ==
    LET req == [project_id |-> project_id] IN
    /\ app = "server"
    /\ IF project_id \notin DOMAIN projects
       THEN /\ resp' = Response("download_lyrics", req, 404,
                                HTTPException(404, "Project not found"), <<>>)
            /\ UNCHANGED files
       ELSE IF ~Truthy(Get(projects[project_id], "lyrics"))
       THEN /\ resp' = Response("download_lyrics", req, server_no_lyrics_status,
                  HTTPException(server_no_lyrics_status, "No lyrics found for this project"),
                  <<>>)
            /\ UNCHANGED files
       ELSE LET project == projects[project_id]
                path == server_lyrics_filename(project)
            IN /\ files' = WriteFile(files, path, server_lyrics_content(project))
               /\ resp' = Response("download_lyrics", req, 200,
                      [path |-> path, content |-> files'[path],
                       filename |-> path], <<>>)
    /\ UNCHANGED <<tasks, runs, app, projects, user_styles, dirs, now>>

\* -------------------------------------------------------------------- time
\* the wall clock read by datetime.now(timezone.utc) advances
Tick ==
    /\ now < MaxClock
    /\ now' = now + 1
    /\ UNCHANGED <<tasks, runs, app, projects, user_styles, files, dirs, resp>>

\* ------------------------------------------------------------ specification
NoResponse == [op |-> "none", app |-> "none", req |-> <<>>, status |-> 0,
               body |-> <<>>, llm |-> <<>>]

Init ==
    /\ app \in Apps
    /\ projects = <<>>
    /\ user_styles = <<>>
    /\ files = <<>>
    /\ dirs = <<>>
    /\ now = 0
    /\ resp = NoResponse
    /\ runs = 0
    /\ tasks = <<>>

Next ==
    \/ Tick
    \/ \E id \in ProjectIds, name \in ProjectNames : api_create_project(id, name)
    \/ \E id \in ProjectIds, name \in ProjectNames : server_create_project(id, name)
    \/ \E id \in ProjectIds : get_project(id)
    \/ \E id \in ProjectIds, ct \in ContentTypes, fn \in UploadNames, b \in Payloads :
          api_upload_file(id, ct, fn, b)
    \/ \E id \in ProjectIds, ct \in ContentTypes, fn \in UploadNames, b \in Payloads :
          server_upload_file(id, ct, fn, b)
    \/ \E id \in ProjectIds, plan \in RoutePlans : api_transform_beat(id, plan)
    \/ \E id \in ProjectIds, fail \in FailPoints : server_transform_beat(id, fail)
    \/ \E id \in ProjectIds : api_download_stems(id)
    \/ \E id \in StyleIds, name \in StyleNames : create_user_style(id, name)
    \/ \E id \in StyleIds : delete_user_style(id)
    \/ get_user_styles({})
    \/ \E id \in ProjectIds, request \in LyricsRequests, ai \in BOOLEAN,
          reply \in LlmTexts \cup {LlmFails} :
          api_generate_project_lyrics(id, request, ai, reply)
    \/ \E id \in ProjectIds, request \in LyricsRequests,
          reply \in LlmTexts \cup {LlmFails} :
          server_generate_lyrics(id, request, reply)
    \/ \E filename \in ServeNames : serve_file(filename)
    \/ \E id \in ProjectIds : api_export_project(id)
    \/ \E id \in ProjectIds : server_export_project(id)
    \/ \E id \in ProjectIds : api_download_lyrics(id)
    \/ \E id \in ProjectIds : server_download_lyrics(id)

Spec == Init /\ [][Next]_vars

\* --------------------------------------------- the lyrics routes on their own
\* LyricsRequest.style is a free string: two of the predefined styles of
\* server.py and two it does not know
AnyStyles == {"trap", "drill", "jazz", "polka"}

AnyLyricsRequests ==
    [style : AnyStyles, custom_prompt : Prompts, user_style_id : UserStyleRefs]

NextLyrics ==
    \/ \E id \in ProjectIds, name \in ProjectNames : api_create_project(id, name)
    \/ \E id \in ProjectIds, name \in ProjectNames : server_create_project(id, name)
    \/ \E id \in StyleIds, name \in StyleNames : create_user_style(id, name)
    \/ \E id \in StyleIds : delete_user_style(id)
    \/ \E id \in ProjectIds, request \in AnyLyricsRequests, ai \in BOOLEAN,
          reply \in LlmTexts \cup {LlmFails} :
          api_generate_project_lyrics(id, request, ai, reply)
    \/ \E id \in ProjectIds, request \in AnyLyricsRequests,
          reply \in LlmTexts \cup {LlmFails} :
          server_generate_lyrics(id, request, reply)

SpecLyrics == Init /\ [][NextLyrics]_vars

\* ------------------------------------------------ the user styles on their own
\* user styles a client stores before it lists them
MaxStored == 101

\* the uuid of the n-th style created
StyleKey(n) == "s" \o ToString(n)

Stored == Cardinality(DOMAIN user_styles)

\* create, list, and delete of the style created last or of an id nothing is
\* stored under
NextStyles ==
    \/ \E name \in StyleNames :
          /\ Stored < MaxStored
          /\ create_user_style(StyleKey(Stored + 1), name)
    \/ \E id \in {StyleKey(Stored), StyleKey(Stored + 1)} : delete_user_style(id)
    \/ \E omitted \in {{}} \cup {{i} : i \in DOMAIN user_styles} :
          get_user_styles(omitted)

SpecStyles == Init /\ [][NextStyles]_vars

\* ------------------------------------------- the functions called directly
\* test_advanced_transform.py / test_complete_system.py / test_audio_transform.py
\* call the functions on a directory of their own, more than once
OutDir == "transformation_output"
OutFile == "transformed.wav"

\* result = extract_stems_and_convert_to_midi(str(test_file), str(output_dir))
call_extract_stems_and_convert_to_midi(plan) ==
    LET run == IF app = "api"
               THEN api_extract_stems_and_convert_to_midi(dirs[OutDir], plan)
               ELSE server_extract_stems_and_convert_to_midi(dirs[OutDir], plan)
    IN
    /\ runs < MaxRuns
    /\ runs' = runs + 1
    /\ dirs' = [dirs EXCEPT ![OutDir] = run.dir]
    /\ resp' = Response("extract_stems_and_convert_to_midi",
                        [plan |-> plan, converted |-> run.converted], 0,
                        run.result, <<>>)
    /\ UNCHANGED <<tasks, app, projects, user_styles, files, now>>

\* success = apply_audio_transformations(str(original_file), str(transformed_file))
call_apply_audio_transformations(deps, fail) ==
    LET call == IF app = "api"
                THEN api_apply_audio_transformations(deps, fail)
                ELSE server_apply_audio_transformations(fail)
    IN
    /\ runs < MaxRuns
    /\ runs' = runs + 1
    /\ files' = IF call.written
                THEN WriteFile(files, OutFile, [kind |-> "audio", data |-> "transformed"])
                ELSE files
    /\ resp' = Response("apply_audio_transformations",
                        [deps |-> deps \/ app = "server", fail |-> fail], 0, call, <<>>)
    /\ UNCHANGED <<tasks, app, projects, user_styles, dirs, now>>

\* stems = create_frequency_based_stems(audio, sr)   (debug_transform.py)
call_create_frequency_based_stems(sr, failing) ==
    LET call == IF app = "api"
                THEN api_create_frequency_based_stems(sr, failing)
                ELSE server_create_frequency_based_stems(sr, failing)
    IN
    /\ runs < MaxRuns
    /\ runs' = runs + 1
    /\ resp' = Response("create_frequency_based_stems",
                        [sr |-> sr, failing |-> failing], 0, call, <<>>)
    /\ UNCHANGED <<tasks, app, projects, user_styles, files, dirs, now>>

\* compressed = apply_compression(audio)
call_apply_compression(audio) ==
    /\ runs < MaxRuns
    /\ runs' = runs + 1
    /\ resp' = Response("apply_compression", [audio |-> audio], 0,
                        IF app = "api" THEN api_apply_compression(audio)
                        ELSE server_apply_compression(audio), <<>>)
    /\ UNCHANGED <<tasks, app, projects, user_styles, files, dirs, now>>

\* an earlier run that was aborted while the temporary audio of the first
\* stem was being written
AbortedPlan ==
    [deps |-> TRUE, abort |-> [at |-> "temp", k |-> 1, partial |-> TRUE],
     stem |-> [i \in 1..Len(Stems) |-> "ok"], main_xml |-> TRUE]

\* what the directory holds when a run starts: nothing, or what an earlier
\* complete or aborted run of the same function left there
LeftoverDirs(a) ==
    {{}} \cup
    {IF a = "api" THEN api_extract_stems_and_convert_to_midi({}, plan).dir
                  ELSE server_extract_stems_and_convert_to_midi({}, plan).dir :
        plan \in {UniformPlan(TRUE, "none", "ok"), AbortedPlan}}

InitFn ==
    /\ app \in Apps
    /\ projects = <<>>
    /\ user_styles = <<>>
    /\ files = <<>>
    /\ \E d \in LeftoverDirs(app) : dirs = [n \in {OutDir} |-> d]
    /\ now = 0
    /\ resp = NoResponse
    /\ runs = 0
    /\ tasks = <<>>

NextFn ==
    \/ \E plan \in CanonicalPlans : call_extract_stems_and_convert_to_midi(plan)
    \/ \E deps \in BOOLEAN, fail \in FailPoints :
          call_apply_audio_transformations(deps, fail)
    \/ \E sr \in SampleRates, failing \in FilterFailures :
          call_create_frequency_based_stems(sr, failing)
    \/ \E audio \in Audios : call_apply_compression(audio)

SpecFn == InitFn /\ [][NextFn]_vars

\* ======================================================= concurrent requests
\* Handlers are coroutines on one event loop: a handler runs without
\* interruption from one await to the next, and other handlers run in between.
TaskIds == {1, 2}

\* the state the concurrent requests start from: the projects and one user
\* style were created before
Created(ids, name_of) ==
    [p \in ids |-> IF app = "api" THEN api_Project(p, name_of[p], 0)
                   ELSE server_Project(p, name_of[p], 0)]

\* a handler that has returned
Finished(t) == tasks[t].pc = "done"

Finish(t, status, body) ==
    /\ tasks' = [tasks EXCEPT ![t] = [@ EXCEPT !.pc = "done", !.status = status,
                                               !.body = body]]
    /\ resp' = Response(tasks[t].op, [task |-> t], status, body, <<>>)

\* ---------------------------------------------- two generate-lyrics requests
RaceRequests ==
    [style : {"trap", "jazz"}, custom_prompt : {Null}, user_style_id : UserStyleRefs]

LyricsTask(request) ==
    [op |-> "generate_lyrics", pc |-> "start", project_id |-> "p1",
     request |-> request, lyrics |-> Null, style |-> Null, status |-> 0,
     body |-> <<>>]

\* a $set that leaves the style out
lyrics_set_without_style(lyrics, style, t) ==
    [lyrics |-> lyrics, updated_at |-> t]

\* the $set of the generate-lyrics routes (api lines 254-260, server 637-643)
lyrics_set(lyrics, style, t) ==
    [lyrics |-> lyrics, style |-> style, updated_at |-> t]

\* project = await db.projects.find_one({"id": project_id})
lyrics_find(t) ==
    /\ tasks[t].op = "generate_lyrics" /\ tasks[t].pc = "start"
    /\ IF tasks[t].project_id \notin DOMAIN projects
       THEN Finish(t, 404, HTTPException(404, "Project not found"))
       ELSE /\ tasks' = [tasks EXCEPT ![t].pc = "found"]
            /\ UNCHANGED resp
    /\ UNCHANGED <<app, projects, user_styles, files, dirs, now, runs>>

\* the user style lookup and the awaited chat call; what is stored and
\* returned afterwards is fixed here
lyrics_call(t, ai_available, reply) ==
    LET request == tasks[t].request
        call == IF app = "api" THEN api_lyrics_call(request, ai_available, reply)
                ELSE server_lyrics_call(request, reply)
        lyrics == IF app = "api" THEN call.text ELSE Strip(call.text)
        style == IF app = "api" /\ Truthy(request.user_style_id)
                 THEN user_styles[request.user_style_id].name
                 ELSE request.style
    IN
    /\ tasks[t].op = "generate_lyrics" /\ tasks[t].pc = "found"
    /\ IF call.raised
       THEN Finish(t, 500, HTTPException(500, "Failed to generate lyrics"))
       ELSE /\ tasks' = [tasks EXCEPT ![t] = [@ EXCEPT !.pc = "called",
                                                     !.lyrics = lyrics,
                                                     !.style = style]]
            /\ UNCHANGED resp
    /\ UNCHANGED <<app, projects, user_styles, files, dirs, now, runs>>

\* await db.projects.update_one({"id": project_id}, {"$set": {...}}): one
\* document update, applied by MongoDB as a whole
lyrics_update(t) ==
    /\ tasks[t].op = "generate_lyrics" /\ tasks[t].pc = "called"
    /\ projects' = [projects EXCEPT ![tasks[t].project_id] =
                       MongoSet(@, lyrics_set(tasks[t].lyrics, tasks[t].style, now))]
    /\ tasks' = [tasks EXCEPT ![t].pc = "updated"]
    /\ UNCHANGED <<app, user_styles, files, dirs, now, resp, runs>>

\* return LyricsResponse(lyrics=..., style=...)
lyrics_return(t) ==
    /\ tasks[t].op = "generate_lyrics" /\ tasks[t].pc = "updated"
    /\ Finish(t, 200, [lyrics |-> tasks[t].lyrics, style |-> tasks[t].style])
    /\ UNCHANGED <<app, projects, user_styles, files, dirs, now, runs>>

InitLyricsRace ==
    /\ app \in Apps
    /\ projects = Created({"p1"}, [p \in {"p1"} |-> "my song"])
    /\ user_styles = [i \in {"s1"} |-> UserStyle("s1", "mine", 0)]
    /\ files = <<>>
    /\ dirs = <<>>
    /\ now = 0
    /\ resp = NoResponse
    /\ runs = 0
    /\ tasks \in [TaskIds -> {LyricsTask(r) : r \in RaceRequests}]

NextLyricsRace ==
    \/ Tick
    \/ \E t \in TaskIds : lyrics_find(t)
    \/ \E t \in TaskIds, ai \in BOOLEAN, reply \in LlmTexts \cup {LlmFails} :
          lyrics_call(t, ai, reply)
    \/ \E t \in TaskIds : lyrics_update(t)
    \/ \E t \in TaskIds : lyrics_return(t)

SpecLyricsRace == InitLyricsRace /\ [][NextLyricsRace]_vars

\* ------------------------------------------------------------ two uploads
\* the two uploads: their bytes differ, their file extensions may
RaceSuffixes == {".mp3", ".wav"}
RaceContentTypes == {"audio/mpeg", "text/plain"}

UploadTask(payload, suffix, content_type) ==
    [op |-> "upload", pc |-> "start", project_id |-> "p1", payload |-> payload,
     filename |-> [stem |-> "beat", suffix |-> suffix],
     content_type |-> content_type, wrote |-> 0, applied |-> 0, status |-> 0,
     body |-> <<>>]

\* how many of the uploads have written their file / had their update applied
Written == Cardinality({t \in DOMAIN tasks : tasks[t].op = "upload" /\ tasks[t].wrote > 0})
Applied == Cardinality({t \in DOMAIN tasks : tasks[t].op = "upload" /\ tasks[t].applied > 0})

\* a $set that leaves the file name out
upload_set_without_name(filename, t) == [updated_at |-> t]

\* the $set of upload_file (lines 125-133)
upload_set(filename, t) == [original_file |-> filename, updated_at |-> t]

\* project = await db.projects.find_one({"id": project_id})
upload_find(t) ==
    /\ tasks[t].op = "upload" /\ tasks[t].pc = "start"
    /\ IF tasks[t].project_id \notin DOMAIN projects
       THEN Finish(t, 404, HTTPException(404, "Project not found"))
       ELSE /\ tasks' = [tasks EXCEPT ![t].pc = "found"]
            /\ UNCHANGED resp
    /\ UNCHANGED <<app, projects, user_styles, files, dirs, now, runs>>

\* from the return of find_one to the next await: the content type check and
\* the whole file write (open, shutil.copyfileobj, close) run without an await
upload_write(t) ==
    LET name == original_filename(tasks[t].project_id, Suffix(tasks[t].filename)) IN
    /\ tasks[t].op = "upload" /\ tasks[t].pc = "found"
    /\ IF tasks[t].content_type \notin allowed_types
       THEN /\ Finish(t, 400,
                 HTTPException(400, "Invalid file type. Please upload audio files only."))
            /\ UNCHANGED files
       ELSE /\ files' = WriteFile(files, name,
                                  [kind |-> "upload", data |-> tasks[t].payload])
            /\ tasks' = [tasks EXCEPT ![t] = [@ EXCEPT !.pc = "written",
                                                     !.wrote = Written + 1]]
            /\ UNCHANGED resp
    /\ UNCHANGED <<app, projects, user_styles, dirs, now, runs>>

\* await db.projects.update_one(...): the updates of two handlers reach the
\* database in either order
upload_update(t) ==
    LET name == original_filename(tasks[t].project_id, Suffix(tasks[t].filename)) IN
    /\ tasks[t].op = "upload" /\ tasks[t].pc = "written"
    /\ projects' = [projects EXCEPT ![tasks[t].project_id] =
                       MongoSet(@, upload_set(name, now))]
    /\ tasks' = [tasks EXCEPT ![t] = [@ EXCEPT !.pc = "updated",
                                             !.applied = Applied + 1]]
    /\ UNCHANGED <<app, user_styles, files, dirs, now, resp, runs>>

\* return {"message": ..., "filename": filename}
upload_return(t) ==
    /\ tasks[t].op = "upload" /\ tasks[t].pc = "updated"
    /\ Finish(t, 200, [message |-> "File uploaded successfully",
                       filename |-> original_filename(tasks[t].project_id,
                                                      Suffix(tasks[t].filename))])
    /\ UNCHANGED <<app, projects, user_styles, files, dirs, now, runs>>

InitUploadRace ==
    /\ app \in Apps
    /\ projects = Created({"p1"}, [p \in {"p1"} |-> "my song"])
    /\ user_styles = <<>>
    /\ files = <<>>
    /\ dirs = <<>>
    /\ now = 0
    /\ resp = NoResponse
    /\ runs = 0
    /\ \E s1 \in RaceSuffixes, s2 \in RaceSuffixes,
          c1 \in RaceContentTypes, c2 \in RaceContentTypes :
          tasks = <<UploadTask("bytesA", s1, c1), UploadTask("bytesB", s2, c2)>>

NextUploadRace ==
    \/ Tick
    \/ \E t \in TaskIds : upload_find(t)
    \/ \E t \in TaskIds : upload_write(t)
    \/ \E t \in TaskIds : upload_update(t)
    \/ \E t \in TaskIds : upload_return(t)

SpecUploadRace == InitUploadRace /\ [][NextUploadRace]_vars

\* --------------------------------------------- two download-lyrics requests
\* the names of the second project: equal to the first project's name, equal
\* to it once spaces are replaced, and different
RaceNames == {"my song", "my_song", "beat"}
RaceLyrics == {"na na", Null}

DownloadTask(project_id) ==
    [op |-> "download_lyrics", pc |-> "start", project_id |-> project_id,
     project |-> Null, path |-> Null, filename |-> Null, status |-> 0,
     body |-> <<>>]

\* lyrics_file (backend/api) and lyrics_path (server.py)
lyrics_path(project) ==
    IF app = "api" THEN api_lyrics_filename(project)
    ELSE server_lyrics_filename(project)

\* the text download_lyrics writes to the file
lyrics_content(project) ==
    IF app = "api" THEN api_lyrics_content(project)
    ELSE server_lyrics_content(project)

\* the filename of the FileResponse
download_filename(project) ==
    IF app = "api" THEN project.name \o "_lyrics.txt"
    ELSE server_lyrics_filename(project)

\* project = await db.projects.find_one({"id": project_id})
download_find(t) ==
    /\ tasks[t].op = "download_lyrics" /\ tasks[t].pc = "start"
    /\ IF tasks[t].project_id \notin DOMAIN projects
       THEN Finish(t, 404, HTTPException(404, "Project not found"))
       ELSE /\ tasks' = [tasks EXCEPT ![t] = [@ EXCEPT !.pc = "found",
                            !.project = projects[tasks[t].project_id]]]
            /\ UNCHANGED resp
    /\ UNCHANGED <<app, projects, user_styles, files, dirs, now, runs>>

\* from the return of find_one to the return of the handler: the check for
\* lyrics, the file write and the construction of the FileResponse
download_write(t) ==
    LET project == tasks[t].project
        no_lyrics == IF app = "api" THEN api_no_lyrics_status
                     ELSE server_no_lyrics_status
        detail == IF app = "api" THEN "No lyrics available for this project"
                  ELSE "No lyrics found for this project"
    IN
    /\ tasks[t].op = "download_lyrics" /\ tasks[t].pc = "found"
    /\ IF ~Truthy(Get(project, "lyrics"))
       THEN /\ Finish(t, no_lyrics, HTTPException(no_lyrics, detail))
            /\ UNCHANGED files
       ELSE /\ files' = WriteFile(files, lyrics_path(project), lyrics_content(project))
            /\ tasks' = [tasks EXCEPT ![t] = [@ EXCEPT !.pc = "returned",
                            !.path = lyrics_path(project),
                            !.filename = download_filename(project)]]
            /\ UNCHANGED resp
    /\ UNCHANGED <<app, projects, user_styles, dirs, now, runs>>

\* FileResponse.__call__: the file at path is opened and read when the
\* response is sent, after the handler has returned
download_send(t) ==
    /\ tasks[t].op = "download_lyrics" /\ tasks[t].pc = "returned"
    /\ Finish(t, 200, [path |-> tasks[t].path, content |-> files[tasks[t].path],
                       filename |-> tasks[t].filename])
    /\ UNCHANGED <<app, projects, user_styles, files, dirs, now, runs>>

InitDownloadRace ==
    /\ app \in Apps
    /\ \E name \in RaceNames, lyrics \in RaceLyrics :
          projects = [p \in {"p1", "p2"} |->
              MongoSet(Created({"p1", "p2"}, [p1 |-> "my song", p2 |-> name])[p],
                       IF p = "p1" THEN lyrics_set("la la", "trap", 0)
                       ELSE lyrics_set(lyrics, "jazz", 0))]
    /\ user_styles = <<>>
    /\ files = <<>>
    /\ dirs = <<>>
    /\ now = 0
    /\ resp = NoResponse
    /\ runs = 0
    /\ tasks \in [TaskIds -> {DownloadTask(p) : p \in {"p1", "p2", "p9"}}]

NextDownloadRace ==
    \/ \E t \in TaskIds : download_find(t)
    \/ \E t \in TaskIds : download_write(t)
    \/ \E t \in TaskIds : download_send(t)

SpecDownloadRace == InitDownloadRace /\ [][NextDownloadRace]_vars

\* ================================================================== claims
ProjectOf(r) == projects[r.req.project_id]
Existing(r) == r.req.project_id \in DOMAIN projects

\* C1: an upload to an existing project is accepted (200) exactly when its
\* content type is audio/mpeg, audio/wav, audio/mp3 or audio/x-wav; any other
\* content type is answered 400, and that request writes no file and leaves
\* every project document (original_file, updated_at) as it was.
C1_UploadAcceptedIffAudioType ==
    [][ (resp'.op = "upload" /\ resp'.req.project_id \in DOMAIN projects) =>
          LET audio == resp'.req.content_type \in
                          {"audio/mpeg", "audio/wav", "audio/mp3", "audio/x-wav"}
          IN /\ (resp'.status = 200) <=> audio
             /\ ~audio => /\ resp'.status = 400
                          /\ files' = files
                          /\ projects' = projects ]_vars

C1_Witness ==
    /\ resp.op = "upload"
    /\ resp.status = 400
    /\ resp.req.content_type = "text/plain"
    /\ Existing(resp)
    /\ Truthy(ProjectOf(resp).original_file)
    /\ ProjectOf(resp).updated_at < now

\* C2: every successful transform response has the fields transformation_type,
\* midi_files, musicxml_files, stems_available, original_composition_created,
\* and its transformation_type is 'advanced_stems_midi'.
C2_TransformResponseFields ==
    (resp.op = "transform" /\ resp.status = 200) =>
        /\ {"transformation_type", "midi_files", "musicxml_files", "stems_available",
            "original_composition_created"} \subseteq DOMAIN resp.body
        /\ resp.body.transformation_type = "advanced_stems_midi"

\* C3: in backend/api no project ever has a transformed_file, and a successful
\* transform response has no 'transformed_file' key.
C3_NoTransformedFile ==
    app = "api" =>
        /\ \A p \in DOMAIN projects : Get(projects[p], "transformed_file") = Null
        /\ (resp.op = "transform" /\ resp.status = 200) =>
               "transformed_file" \notin DOMAIN resp.body

C3_Witness ==
    /\ app = "api"
    /\ resp.op = "transform"
    /\ resp.status = 200
    /\ ProjectOf(resp).transformation_complete
    /\ Truthy(ProjectOf(resp).lyrics)

\* C4: export answers ready_for_export = true exactly when the project has
\* both a transformed file and lyrics.
C4_ReadyForExport ==
    (resp.op = "export" /\ resp.status = 200) =>
        /\ "ready_for_export" \in DOMAIN resp.body
        /\ resp.body.ready_for_export <=>
              (Truthy(Get(ProjectOf(resp), "transformed_file"))
               /\ Truthy(Get(ProjectOf(resp), "lyrics")))

\* C5: export of an existing project answers 200 with project_name, has_audio,
\* has_lyrics and ready_for_export; export of an unknown id answers 404.
C5_ExportFields ==
    resp.op = "export" =>
        IF Existing(resp)
        THEN /\ resp.status = 200
             /\ {"project_name", "has_audio", "has_lyrics", "ready_for_export"}
                    \subseteq DOMAIN resp.body
        ELSE resp.status = 404

\* C6: download-lyrics of an existing project answers 200 with the lyrics
\* file when the project has lyrics and 404 when it has none.
C6_DownloadLyricsStatus ==
    (resp.op = "download_lyrics" /\ Existing(resp)) =>
        IF Truthy(Get(ProjectOf(resp), "lyrics"))
        THEN /\ resp.status = 200
             /\ resp.body.content.lyrics = ProjectOf(resp).lyrics
        ELSE resp.status = 404

OutputDir == dirs[OutDir]
ReturnedBy(fn, a) == resp.op = fn /\ resp.app = a

\* the file names with suffix .mid / .musicxml the conversion can write
StemMidiNames == {Stems[i] \o ".mid" : i \in 1..Len(Stems)}
MusicXmlNames ==
    {Stems[i] \o ".musicxml" : i \in 1..Len(Stems)} \cup {"full_arrangement.musicxml"}

Range(seq) == {seq[i] : i \in 1..Len(seq)}

C8_ConvertedStemsListed ==
    (ReturnedBy("extract_stems_and_convert_to_midi", "api") /\ resp.body.success) =>
        Range(resp.req.converted) \subseteq Range(resp.body.musicxml_files)

IsPrefix(a, b) == Len(a) <= Len(b) /\ a = SubSeq(b, 1, Len(a))

\* C9: apply_audio_transformations starts its steps in the order load, pitch
\* shift, time stretch, EQ, reverb, compression, distortion, mono-to-stereo,
\* normalize, write; it returns True exactly when all of them ran and the file
\* was written; when a step fails (or the libraries are missing) it returns
\* False, raises nothing and starts no later step.
C9_PipelineOrderAndFailure ==
    resp.op = "apply_audio_transformations" =>
        LET order == <<"load", "pitch_shift", "time_stretch", "eq", "reverb",
                       "compression", "distortion", "mono_to_stereo", "normalize",
                       "write">>
            call == resp.body
            fail == resp.req.fail
        IN /\ IsPrefix(call.ran, order)
           /\ ~call.escaped
           /\ call.returned <=> (call.ran = order /\ call.written)
           /\ ~resp.req.deps => (~call.returned /\ call.ran = <<>>)
           /\ (resp.req.deps /\ fail # "none") =>
                 /\ ~call.returned
                 /\ ~call.written
                 /\ call.ran # <<>>
                 /\ call.ran[Len(call.ran)] = fail

C9_Witness ==
    /\ resp.op = "apply_audio_transformations"
    /\ resp.req.fail = "reverb"
    /\ resp.req.deps
    /\ ~resp.body.returned
    /\ resp.body.ran = <<"load", "pitch_shift", "time_stretch", "eq", "reverb">>

\* C10: a generate-lyrics request sends at most one message to the LLM; when
\* that call fails the answer is 500 and no project document changes.
C10_OneLlmCallNoRetry ==
    [][ resp'.op = "generate_lyrics" =>
          /\ Len(resp'.llm) <= 1
          /\ (resp'.req.reply = LlmFails /\ Len(resp'.llm) >= 1) =>
                /\ resp'.status = 500
                /\ projects' = projects ]_vars

C10_Witness ==
    /\ resp.op = "generate_lyrics"
    /\ resp.req.reply = LlmFails
    /\ Len(resp.llm) = 1
    /\ resp.status = 500
    /\ Truthy(ProjectOf(resp).lyrics)
    /\ ProjectOf(resp).updated_at < now

\* C11: in every reachable state a project whose original_file is set has
\* original_file = '{project_id}_original{extension}' for the extension of an
\* uploaded file name, and a file of that name is in the uploads directory.
C11_OriginalFileStored ==
    \A p \in DOMAIN projects :
        Truthy(Get(projects[p], "original_file")) =>
            /\ \E fn \in UploadNames :
                  projects[p].original_file = p \o "_original" \o fn.suffix
            /\ projects[p].original_file \in DOMAIN files

C11_Witness ==
    /\ resp.op = "download_lyrics"
    /\ resp.status = 200
    /\ Truthy(ProjectOf(resp).original_file)
    /\ ProjectOf(resp).original_file \in DOMAIN files
    /\ resp.body.path \in DOMAIN files
    /\ ProjectOf(resp).updated_at < now

\* the environment of the last direct call of the conversion
PlanOf(r) == r.req.plan

\* the stems whose note detection and MIDI write succeed under a plan
RECURSIVE MidisOf(_, _)
MidisOf(plan, i) ==
    IF i > 5 THEN <<>>
    ELSE IF plan.stem[i] = "midi_fail" THEN MidisOf(plan, i + 1)
    ELSE <<(<<"bass", "kick", "melody", "percussion", "harmony">>)[i] \o ".mid">>
            \o MidisOf(plan, i + 1)

\* C12: when only conversions of single stems fail (note detection, MIDI write
\* or MusicXML conversion), in either implementation the run still returns
\* success = True with main_midi full_song.mid, the MIDI file of every stem
\* whose MIDI conversion worked is written and listed in stem order, and the
\* transformation info file is written.
C12_StemFailureSkipped ==
    (resp.op = "extract_stems_and_convert_to_midi"
     /\ PlanOf(resp).deps /\ PlanOf(resp).abort.at = "none") =>
        /\ resp.body.success
        /\ resp.body.main_midi = "full_song.mid"
        /\ "full_song.mid" \in OutputDir
        /\ resp.body.stem_midis = MidisOf(PlanOf(resp), 1)
        /\ Range(resp.body.stem_midis) \subseteq OutputDir
        /\ IF resp.app = "api" THEN "transformation_info.txt" \in OutputDir
                               ELSE "transformation_guide.txt" \in OutputDir

C12_Witness ==
    /\ resp.op = "extract_stems_and_convert_to_midi"
    /\ resp.app = "api"
    /\ PlanOf(resp).abort.at = "none"
    /\ PlanOf(resp).stem[2] = "midi_fail"
    /\ PlanOf(resp).stem[3] = "xml_none"
    /\ resp.body.success
    /\ resp.body.stem_midis = <<"bass.mid", "melody.mid", "percussion.mid", "harmony.mid">>
    /\ "transformation_info.txt" \in OutputDir

\* C13: create_frequency_based_stems (both implementations) never raises and
\* returns exactly the five stems bass, kick, melody, percussion, harmony in
\* that order; the first four are requested with the cutoffs 0-200, 0-80,
\* 200-2000 and 2000-sr//2 Hz; a stem whose filter or harmonic extraction
\* fails is a signal derived from the input audio without the filter, every
\* other stem is the filtered input.
C13_FiveStemsWithFallback ==
    resp.op = "create_frequency_based_stems" =>
        LET stems == resp.body.stems
            sr == resp.req.sr
            cutoffs == <<<<0, 200>>, <<0, 80>>, <<200, 2000>>, <<2000, sr \div 2>>>>
        IN /\ ~resp.body.raised
           /\ [i \in 1..Len(stems) |-> stems[i].name]
                 = <<"bass", "kick", "melody", "percussion", "harmony">>
           /\ \A i \in 1..4 :
                 <<stems[i].audio.low_freq, stems[i].audio.high_freq>> = cutoffs[i]
           /\ \A i \in 1..5 :
                 /\ stems[i].audio.from = "input"
                 /\ (stems[i].audio.filter = "none") <=> (i \in resp.req.failing)

C13_Witness ==
    /\ resp.op = "create_frequency_based_stems"
    /\ resp.req.failing = {2, 5}
    /\ Len(resp.body.stems) = 5
    /\ resp.body.stems[2].audio.filter = "none"
    /\ resp.body.stems[4].audio.filter = "high"
    /\ resp.body.stems[5].name = "harmony"

\* the request the last generate-lyrics response answers
RequestOf(r) ==
    [style |-> r.req.style, custom_prompt |-> r.req.custom_prompt,
     user_style_id |-> r.req.user_style_id]

\* the messages the same application sends, in the same state, for a request
SentFor(request) ==
    IF app = "api" THEN api_lyrics_call(request, TRUE, "").sent
    ELSE server_lyrics_call(request, "").sent

\* C14 as stated: the prompt a generate-lyrics request sends includes its
\* custom_prompt, and the same request with any other style sends a
\* different prompt.
C14_PromptDiffersByStyle ==
    (resp.op = "generate_lyrics" /\ Len(resp.llm) = 1) =>
        /\ Truthy(resp.req.custom_prompt) =>
              resp.llm[1].custom = resp.req.custom_prompt
        /\ \A other \in AnyStyles \ {resp.req.style} :
              SentFor([RequestOf(resp) EXCEPT !.style = other]) # resp.llm

\* C14 amended: the prompt includes the custom_prompt whenever one is given.
\* In backend/api a request without user_style_id sends a prompt that names
\* its style, so another style gives another prompt, and a request with a
\* stored user style sends a prompt built from the user style that is the
\* same whatever the style field says. In server.py the prompt differs from
\* that of another style unless neither style is one of the predefined ones
\* (all of those share the default prompt).
C14_PromptByStyleOrUserStyle ==
    (resp.op = "generate_lyrics" /\ Len(resp.llm) = 1) =>
        /\ Truthy(resp.req.custom_prompt) =>
              resp.llm[1].custom = resp.req.custom_prompt
        /\ \A other \in AnyStyles \ {resp.req.style} :
              LET same == SentFor([RequestOf(resp) EXCEPT !.style = other]) = resp.llm
                  predefined == {"trap", "boom_bap", "drill", "conscious",
                                 "melodic", "freestyle"}
              IN IF resp.app = "api"
                 THEN same <=> Truthy(resp.req.user_style_id)
                 ELSE same <=> ({other, resp.req.style} \cap predefined = {})

C14_Witness ==
    /\ resp.op = "generate_lyrics"
    /\ resp.app = "server"
    /\ Len(resp.llm) = 1
    /\ resp.req.style = "jazz"
    /\ resp.req.custom_prompt = "about success"
    /\ SentFor([RequestOf(resp) EXCEPT !.style = "polka"]) = resp.llm
    /\ SentFor([RequestOf(resp) EXCEPT !.style = "trap"]) # resp.llm

\* C15: every stored user style (created and not deleted) is in the answer of
\* GET /api/user-styles; DELETE of a stored id answers 200 and removes exactly
\* that style; DELETE of an id that is not stored answers 404 and changes
\* nothing; no other request removes a style.
C15_CreateListDelete ==
    [][ resp' # resp =>
          /\ resp'.op = "create_user_style" =>
                /\ resp'.status = 200
                /\ resp'.body.id \notin DOMAIN user_styles
                /\ user_styles' = [i \in (DOMAIN user_styles) \cup {resp'.body.id} |->
                                      IF i = resp'.body.id THEN resp'.body
                                      ELSE user_styles[i]]
          /\ resp'.op = "get_user_styles" =>
                /\ resp'.status = 200
                /\ user_styles' = user_styles
                /\ \A i \in DOMAIN user_styles : user_styles[i] \in resp'.body
          /\ resp'.op = "delete_user_style" =>
                IF resp'.req.style_id \in DOMAIN user_styles
                THEN /\ resp'.status = 200
                     /\ user_styles' = [i \in (DOMAIN user_styles) \ {resp'.req.style_id}
                                           |-> user_styles[i]]
                ELSE /\ resp'.status = 404
                     /\ user_styles' = user_styles
          /\ resp'.op \notin {"create_user_style", "get_user_styles", "delete_user_style"}
                => user_styles' = user_styles ]_vars

\* C16: GET /api/projects/{id} answers 404 for an id no project was created
\* with, and 200 with the stored id and name otherwise; when it directly
\* follows the POST /api/projects that returned the id, the answer has the id
\* and name of the POST's answer and original_file, lyrics and style null.
C16_CreatedProjectRetrievable ==
    [][ resp'.op = "get_project" =>
          LET id == resp'.req.project_id IN
          IF id \in DOMAIN projects
          THEN /\ resp'.status = 200
               /\ resp'.body.id = id
               /\ resp'.body.name = projects[id].name
               /\ (resp.op = "create_project" /\ resp.body.id = id) =>
                     /\ resp'.body.name = resp.body.name
                     /\ resp'.body.original_file = Null
                     /\ resp'.body.lyrics = Null
                     /\ resp'.body.style = Null
          ELSE resp'.status = 404 ]_vars

C16_Witness ==
    /\ resp.op = "get_project"
    /\ resp.status = 200
    /\ resp.body.id = "p1"
    /\ resp.body.name = "my song"
    /\ resp.body.original_file = Null
    /\ resp.body.lyrics = Null
    /\ resp.body.style = Null

\* C17: GET /api/files/{filename} answers 404 when no file of that name is in
\* the uploads directory and 200 with the file's content otherwise, and it
\* changes neither a file nor a directory.
C17_ServeFileOr404 ==
    [][ (resp'.op = "serve_file" /\ resp' # resp) =>
          /\ IF resp'.req.filename \in DOMAIN files
             THEN resp'.status = 200 /\ resp'.body = files[resp'.req.filename]
             ELSE resp'.status = 404
          /\ files' = files
          /\ dirs' = dirs ]_vars

\* the document says the beat was transformed (server.py has no such field)
TransformationComplete(doc) ==
    "transformation_complete" \in DOMAIN doc /\ doc.transformation_complete

\* C18: the transform route answers 404 for an unknown project, else 400 for
\* a project without original_file, else 404 when the original file is not on
\* disk, and converts only after these checks; so every project with
\* transformation_complete = true has an original_file (which only a
\* successful upload sets) whose file is in the uploads directory.
C18_TransformAfterUpload ==
    [][ /\ (resp'.op = "transform" /\ resp' # resp) =>
              LET id == resp'.req.project_id IN
              IF id \notin DOMAIN projects
              THEN resp'.status = 404 /\ resp'.body.detail = "Project not found"
              ELSE IF ~Truthy(Get(projects[id], "original_file"))
              THEN /\ resp'.status = 400
                   /\ projects' = projects /\ dirs' = dirs
              ELSE IF projects[id].original_file \notin DOMAIN files
              THEN /\ resp'.status = 404
                   /\ resp'.body.detail = "Original file not found"
                   /\ projects' = projects /\ dirs' = dirs
              ELSE resp'.status \in {200, 500}
        /\ \A p \in DOMAIN projects' :
              TransformationComplete(projects'[p]) =>
                  /\ Truthy(projects'[p].original_file)
                  /\ projects'[p].original_file \in DOMAIN files'
        /\ (resp'.op # "upload" \/ resp'.status # 200) =>
              \A p \in (DOMAIN projects) \cap (DOMAIN projects') :
                  Get(projects'[p], "original_file") = Get(projects[p], "original_file")
      ]_vars

C18_Witness ==
    /\ resp.op = "transform"
    /\ resp.status = 200
    /\ resp.app = "api"
    /\ ProjectOf(resp).transformation_complete = TRUE
    /\ ProjectOf(resp).original_file \in DOMAIN files

\* C19: in backend/api a generate-lyrics request for an existing project
\* whose user_style_id matches no stored user style is answered 404 'User
\* style not found', sends nothing to the LLM and changes no project.
C19_UnknownUserStyle404 ==
    [][ (resp'.op = "generate_lyrics" /\ resp'.app = "api" /\ resp' # resp
         /\ resp'.req.project_id \in DOMAIN projects
         /\ Truthy(resp'.req.user_style_id)
         /\ resp'.req.user_style_id \notin DOMAIN user_styles) =>
            /\ resp'.status = 404
            /\ resp'.body.detail = "User style not found"
            /\ resp'.llm = <<>>
            /\ projects' = projects ]_vars

\* C20: when the conversion reports success = False for a transform request
\* of backend/api that passed the precondition checks (missing libraries
\* included), the answer is 500 and no project document changes.
C20_FailedConversionLeavesProject ==
    [][ (resp'.op = "transform" /\ resp'.app = "api" /\ resp' # resp
         /\ resp'.req.project_id \in DOMAIN projects
         /\ Truthy(Get(projects[resp'.req.project_id], "original_file"))
         /\ Exists(projects[resp'.req.project_id].original_file)) =>
            LET dname == resp'.req.project_id \o "_stems"
                before == IF dname \in DOMAIN dirs THEN dirs[dname] ELSE {}
                run == api_extract_stems_and_convert_to_midi(before, resp'.req.plan)
            IN ~run.result.success =>
                  /\ resp'.status = 500
                  /\ projects' = projects ]_vars

C20_Witness ==
    /\ resp.op = "transform"
    /\ resp.app = "api"
    /\ resp.status = 500
    /\ ~resp.req.plan.deps
    /\ ProjectOf(resp).transformation_complete
    /\ ProjectOf(resp).updated_at < now

\* the names of the temporary stem audio files
TempNames == {"temp_" \o s \o ".wav" :
                 s \in {"bass", "kick", "melody", "percussion", "harmony"}}

\* C21: whenever extract_stems_and_convert_to_midi has returned (either
\* implementation, success or failure), the output directory holds no
\* temp_{stem}.wav file.
C21_NoTempFileLeft ==
    resp.op = "extract_stems_and_convert_to_midi" => TempNames \cap OutputDir = {}

\* C22: a successful generate-lyrics request of backend/api changes the
\* project in one update to the lyrics and style of its response and the
\* current time as updated_at, every other field and project kept; the style
\* is the name of the user style when a user_style_id was given and the
\* request's style otherwise.
C22_LyricsAndStyleStored ==
    [][ (resp'.op = "generate_lyrics" /\ resp'.app = "api" /\ resp'.status = 200
         /\ resp' # resp) =>
            LET id == resp'.req.project_id IN
            /\ projects' = [projects EXCEPT ![id] =
                  MongoSet(@, [lyrics |-> resp'.body.lyrics,
                               style |-> resp'.body.style,
                               updated_at |-> now])]
            /\ resp'.body.style =
                  IF Truthy(resp'.req.user_style_id)
                  THEN user_styles[resp'.req.user_style_id].name
                  ELSE resp'.req.style ]_vars

C22_Witness ==
    /\ resp.op = "generate_lyrics"
    /\ resp.app = "api"
    /\ resp.status = 200
    /\ resp.req.user_style_id = "s1"
    /\ resp.body.style = "mine"
    /\ ProjectOf(resp).style = "mine"
    /\ ProjectOf(resp).lyrics = "verse one\n"
    /\ ProjectOf(resp).updated_at = 1
    /\ ProjectOf(resp).created_at = 0

\* C23: apply_compression (threshold 0.7 in backend/audio_processing, 0.8 in
\* server.py, ratio 4) returns every sample with |x| <= threshold unchanged
\* and every other sample with the sign of x and the magnitude
\* threshold + (|x| - threshold)/4; no sample changes sign, no magnitude grows.
C23_CompressionKeepsSign ==
    resp.op = "apply_compression" =>
        LET x == resp.req.audio
            y == resp.body
            t == IF resp.app = "api" THEN 700 ELSE 800
            abs(v) == IF v < 0 THEN 0 - v ELSE v
        IN /\ Len(y) = Len(x)
           /\ \A i \in 1..Len(x) :
                 /\ abs(x[i]) <= t => y[i] = x[i]
                 /\ abs(x[i]) > t =>
                       /\ (y[i] < 0) <=> (x[i] < 0)
                       /\ abs(y[i]) = t + (abs(x[i]) - t) \div 4
                 /\ abs(y[i]) <= abs(x[i])

\* C24: a successful upload changes only original_file and updated_at of its
\* project: every other field (lyrics, style, stems_directory, midi_files,
\* musicxml_files, main_midi, transformation_type, transformation_complete)
\* and every other project keep their values, also when the project was
\* transformed before.
C24_UploadKeepsOtherFields ==
    [][ (resp'.op = "upload" /\ resp'.status = 200) =>
          LET id == resp'.req.project_id IN
          /\ DOMAIN projects' = DOMAIN projects
          /\ \A p \in DOMAIN projects : p # id => projects'[p] = projects[p]
          /\ DOMAIN projects'[id] = DOMAIN projects[id]
          /\ \A k \in DOMAIN projects[id] :
                k \notin {"original_file", "updated_at"} =>
                    projects'[id][k] = projects[id][k] ]_vars

C24_Witness ==
    /\ resp.op = "upload"
    /\ resp.status = 200
    /\ resp.app = "api"
    /\ ProjectOf(resp).transformation_complete
    /\ ProjectOf(resp).midi_files # <<>>
    /\ ProjectOf(resp).main_midi = "full_song.mid"
    /\ ProjectOf(resp).updated_at = 1

\* the file names a project document lists as results of its transformation
ListedFiles(doc) ==
    {Get(doc, "main_midi")} \cup Range(doc.midi_files) \cup Range(doc.musicxml_files)

\* C25: in backend/api every file of a project's stems directory other than
\* transformation_info.txt is named by the project's main_midi, midi_files or
\* musicxml_files, and so is every entry of the zip download-stems serves.
C25_StemsDirectoryListed ==
    app = "api" =>
        /\ \A p \in DOMAIN projects :
              (p \o "_stems") \in DOMAIN dirs =>
                  dirs[p \o "_stems"] \ {"transformation_info.txt"}
                      \subseteq ListedFiles(projects[p])
        /\ (resp.op = "download_stems" /\ resp.status = 200) =>
              resp.body.content.entries \ {"transformation_info.txt"}
                  \subseteq ListedFiles(ProjectOf(resp))

\* the generate-lyrics requests whose update was applied
Writers == {t \in DOMAIN tasks : tasks[t].op = "generate_lyrics"
                                 /\ tasks[t].pc \in {"updated", "done"}
                                 /\ tasks[t].lyrics # Null}

\* C26: with two generate-lyrics requests for the same project running
\* concurrently, the stored (lyrics, style) pair is at every moment, and so
\* after both have finished, the untouched initial pair or the pair one of
\* the requests wrote: never the lyrics of one with the style of the other.
C26_LyricsStylePairOfOneRequest ==
    \A p \in DOMAIN projects :
        LET pair == <<projects[p].lyrics, projects[p].style>> IN
        IF Writers = {} THEN pair = <<Null, Null>>
        ELSE \E t \in Writers : pair = <<tasks[t].lyrics, tasks[t].style>>

C26_Witness ==
    /\ DOMAIN tasks = {1, 2}
    /\ Finished(1) /\ Finished(2)
    /\ tasks[1].status = 200 /\ tasks[2].status = 200
    /\ tasks[1].lyrics # tasks[2].lyrics
    /\ tasks[1].style # tasks[2].style
    /\ projects["p1"].lyrics = tasks[1].lyrics
    /\ projects["p1"].style = tasks[1].style
    /\ resp.req = [task |-> 1]

\* the uploads that wrote a file, and the file name each of them wrote
Uploads == {t \in DOMAIN tasks : tasks[t].op = "upload" /\ tasks[t].wrote > 0}
NameOf(t) == tasks[t].project_id \o "_original" \o tasks[t].filename.suffix
BothFinished == \A t \in DOMAIN tasks : tasks[t].pc = "done"

\* C27 as stated: after two concurrent uploads to one project have finished,
\* original_file names a file of the uploads directory whose bytes are those
\* of one of the uploads, and that upload is the one that wrote its file last.
C27_LastWrittenUploadWins ==
    (BothFinished /\ Uploads # {}) =>
        LET f == projects["p1"].original_file IN
        /\ f \in DOMAIN files
        /\ \E t \in Uploads :
              /\ f = NameOf(t)
              /\ files[f].data = tasks[t].payload
              /\ \A u \in Uploads : tasks[u].wrote <= tasks[t].wrote

\* C27 amended: after both have finished, original_file is the name written
\* by the upload whose database update was applied last; that file exists and
\* its bytes are entirely those of the upload that wrote this name last. This
\* is the upload that wrote last of all when both uploads have the same
\* extension; with different extensions it need not be.
C27_LastAppliedUploadWins ==
    (BothFinished /\ Uploads # {}) =>
        LET f == projects["p1"].original_file IN
        /\ f \in DOMAIN files
        /\ \E t \in Uploads :
              /\ f = NameOf(t)
              /\ \A u \in Uploads : tasks[u].applied <= tasks[t].applied
        /\ \E w \in Uploads :
              /\ f = NameOf(w)
              /\ files[f].data = tasks[w].payload
              /\ \A u \in Uploads : NameOf(u) = f => tasks[u].wrote <= tasks[w].wrote
              /\ (\A u \in Uploads : NameOf(u) = f) =>
                    \A u \in Uploads : tasks[u].wrote <= tasks[w].wrote

C27_Witness ==
    /\ BothFinished
    /\ Uploads = {1, 2}
    /\ tasks[1].wrote = 1 /\ tasks[2].wrote = 2
    /\ tasks[1].applied = 2 /\ tasks[2].applied = 1
    /\ NameOf(1) # NameOf(2)
    /\ projects["p1"].original_file = NameOf(1)
    /\ files[NameOf(1)].data = "bytesA"
    /\ files[NameOf(2)].data = "bytesB"

\* the download-lyrics requests that were answered with a file
Served == {t \in DOMAIN tasks : tasks[t].op = "download_lyrics"
                                 /\ tasks[t].pc = "done" /\ tasks[t].status = 200}

\* C28: under any interleaving of the download-lyrics requests for two
\* distinct projects, the file served for a project carries the name and the
\* lyrics of that project and never those of the other.
C28_ServesOwnLyrics ==
    \A t \in Served :
        /\ tasks[t].body.content.title = projects[tasks[t].project_id].name
        /\ tasks[t].body.content.lyrics = projects[tasks[t].project_id].lyrics

====
